---- MODULE Spec2Model ----
(***************************************************************************)
(* Model of the urjamitra backend: the solar energy agent (GeminiClient,   *)
(* SolarEnergyAgent) and the carbon footprint pipeline                     *)
(* (CarbonFootprintPipeline and its stages, KnowledgeRetriever,            *)
(* FootprintEstimator and the estimation of CarbonFootprintAgent).         *)
(***************************************************************************)
EXTENDS Integers, Sequences, FiniteSets, TLC

VARIABLES
    sim_args,       \* <<solar_watts, battery_pct>> handed to _get_simulated_response
    sim_out,        \* the response _get_simulated_response returned, or NoResponse
    pc,             \* position of the running generate_content / track_and_advise call
    prompt,         \* the prompt of the running generate_content call
    idx,            \* index into models_to_try of the next candidate
    attempts,       \* history: the candidates called so far in this call, with outcomes
    response,       \* what generate_content returned
    first_response, \* history: what the previous generate_content call on this prompt returned
    client_calls,   \* number of generate_content calls made directly on the client
    energy_log,     \* SolarEnergyAgent.energy_log
    ta_args,        \* <<solar_production_watts, battery_percentage>> of the running call
    result,         \* what track_and_advise returned
    calls,          \* number of track_and_advise calls started on the agent
    pl_pc,          \* position of run_complete_pipeline
    pl_input,       \* image_path argument of run_complete_pipeline
    pipeline_results, \* the pipeline_results mapping being accumulated
    layer_result,   \* the previous layer's result (layer1_result .. layer4_result)
    pl_ran,         \* history: the layers entered so far, in order, what each was
                    \* given and whether it raised
    pl_tools,       \* history: the extraction tools process_input invoked, in order
    pl_return,      \* what run_complete_pipeline returned
    kr_pc,          \* position of KnowledgeRetriever.run_agentic_loop
    kr_args,        \* standardized_data argument of run_agentic_loop
    kr_calls,       \* history: the tools the loop executed, in order, with their outputs
    est_pc,         \* position of the running estimation call
    est_fn,         \* which estimation function is running
    est_data,       \* its argument (retrieval_data / retrieved_data_json)
    est_model_calls, \* history: number of model calls the estimation made
    est_return,     \* what the estimation returned
    ag_pc,          \* position of CarbonFootprintAgent.run
    ag_query,       \* user_query argument of run
    ag_standardized, \* standardized_result: what json.loads makes of the model's text
    ag_data,        \* standardized_data
    ag_knowledge,   \* knowledge_data
    ag_return,      \* what run returned
    sv_agents,      \* the SolarEnergyAgent objects created so far, in order
    sv_global,      \* the global solar_agent: an index into sv_agents
    sv_req,         \* the requests the solar server received, in order of arrival
    sv_overlap,     \* history: some request arrived while another was in flight
    up_files,       \* the upload folder: which request's upload each path holds (0: none)
    up_req          \* the requests POST /api/analyze received, in order of arrival

vars == <<sim_args, sim_out, pc, prompt, idx, attempts, response, first_response,
          client_calls, energy_log, ta_args, result, calls,
          pl_pc, pl_input, pipeline_results, layer_result, pl_ran, pl_tools, pl_return,
          kr_pc, kr_args, kr_calls,
          est_pc, est_fn, est_data, est_model_calls, est_return,
          ag_pc, ag_query, ag_standardized, ag_data, ag_knowledge, ag_return,
          sv_agents, sv_global, sv_req, sv_overlap, up_files, up_req>>

solarVars == <<pc, prompt, idx, attempts, response, first_response, client_calls,
               energy_log, ta_args, result, calls>>
simVars == <<sim_args, sim_out>>
pipelineVars == <<pl_pc, pl_input, pipeline_results, layer_result, pl_ran, pl_tools,
                  pl_return>>
retrieverVars == <<kr_pc, kr_args, kr_calls>>
estimatorVars == <<est_pc, est_fn, est_data, est_model_calls, est_return>>
agentVars == <<ag_pc, ag_query, ag_standardized, ag_data, ag_knowledge, ag_return>>
serverVars == <<sv_agents, sv_global, sv_req, sv_overlap>>
uploadVars == <<up_files, up_req>>

----------------------------------------------------------------------------
(* Bounds of the model *)

\* track_and_advise calls on one agent (more than 3, so that the log outgrows
\* the 3 entries the prompt embeds)
MaxCalls == 4
\* generate_content calls made on one prompt
MaxClientCalls == 2

----------------------------------------------------------------------------
(* Python numbers.  A number is an int or a float; the value is kept in     *)
(* tenths so that floats such as 99.5 can be drawn.                         *)

IntNum(n) == [tenths |-> 10 * n, is_float |-> FALSE]
FloatNum(t) == [tenths |-> t, is_float |-> TRUE]

\* float(x) as applied by the analyze endpoint
ToFloat(x) == [tenths |-> x.tenths, is_float |-> TRUE]

DigitChars == <<"0", "1", "2", "3", "4", "5", "6", "7", "8", "9">>

RECURSIVE Digits(_)
Digits(n) ==
    IF n < 10 THEN <<DigitChars[n + 1]>>
    ELSE Digits(n \div 10) \o <<DigitChars[(n % 10) + 1]>>

\* str(x) / f"{x}": "3500" for the int 3500, "3500.0" for the float 3500.0
FormatNum(x) ==
    IF x.is_float
    THEN Digits(x.tenths \div 10) \o <<".">> \o <<DigitChars[(x.tenths % 10) + 1]>>
    ELSE Digits(x.tenths \div 10)

DigitValue(c) == CHOOSE d \in 0..9 : DigitChars[d + 1] = c

IsDigit(c) == \E d \in 0..9 : DigitChars[d + 1] = c

RECURSIVE IntOfDigits(_)
\* int("3500")
IntOfDigits(s) ==
    IF Len(s) = 0 THEN 0
    ELSE 10 * IntOfDigits(SubSeq(s, 1, Len(s) - 1)) + DigitValue(s[Len(s)])

----------------------------------------------------------------------------
(* GeminiClient._get_simulated_response                                     *)

\* Period with the 2000 W edge taken into the upper band
PeriodEdgeInclusive(solar_watts) ==
    IF solar_watts.tenths >= 20000 THEN "Peak Sun (High Production)"
    ELSE IF solar_watts.tenths > 5000 THEN "Moderate Sun"
    ELSE IF solar_watts.tenths > 1000 THEN "Low Sun"
    ELSE "Night/No Sun"

Period(solar_watts) ==
    IF solar_watts.tenths > 20000 THEN "Peak Sun (High Production)"
    ELSE IF solar_watts.tenths > 5000 THEN "Moderate Sun"
    ELSE IF solar_watts.tenths > 1000 THEN "Low Sun"
    ELSE "Night/No Sun"

PowerSourceHeavy(solar_watts) ==
    IF solar_watts.tenths > 20000 THEN "Direct Solar"
    ELSE IF solar_watts.tenths > 5000 THEN "Direct Solar"
    ELSE IF solar_watts.tenths > 1000 THEN "Battery"
    ELSE "Battery"

Recommendation(solar_watts) ==
    IF solar_watts.tenths > 20000
    THEN "Excellent time for high-power appliances. Run water heater and washing machine now."
    ELSE IF solar_watts.tenths > 5000
    THEN "Good time for medium-power appliances. Save heavy tasks if possible."
    ELSE IF solar_watts.tenths > 1000
    THEN "Transition to battery power. Minimize non-essential usage."
    ELSE "Use only essential appliances. Preserve battery for overnight needs."

BatteryAdvice(battery_pct) ==
    IF battery_pct.tenths > 800
    THEN "Battery well charged. Can support high-power loads if needed."
    ELSE IF battery_pct.tenths > 500
    THEN "Battery at moderate level. Monitor usage and prioritize essentials."
    ELSE "Battery getting low. Conserve power and avoid non-essential appliances."

LightsPowerSource(solar_watts) ==
    IF solar_watts.tenths < 1000 THEN "Battery" ELSE "Solar"

LaptopPowerSource(solar_watts) ==
    IF solar_watts.tenths > 1000 THEN "Solar" ELSE "Battery"

ChargeMode(solar_watts) ==
    IF solar_watts.tenths > 10000 THEN "Charge mode active"
    ELSE "Conservation mode - discharge minimally"

Allocation(appliance, time_to_run, power_source, priority) ==
    [appliance |-> appliance, time_to_run |-> time_to_run,
     power_source |-> power_source, priority |-> priority]

\* The plan serialized into the simulated response.  An f-string is kept as
\* the tuple of its parts, numbers as the characters str() gives them.
SimulatedPlan(solar_watts, battery_pct) ==
    [recommendation_summary |->
        <<Recommendation(solar_watts), "Current conditions:", Period(solar_watts),
          "Battery:", FormatNum(battery_pct), "%">>,
     energy_allocation_plan |-> <<
        Allocation("Refrigerator", "24/7", "Solar/Battery", "Essential"),
        Allocation("Lights (LED x5)", "As needed", LightsPowerSource(solar_watts), "Essential"),
        Allocation("Water Heater", "During peak sun if available",
                   PowerSourceHeavy(solar_watts), "High"),
        Allocation("Washing Machine", "When solar > 2000W",
                   PowerSourceHeavy(solar_watts), "Medium"),
        Allocation("Television", "Evening (limited use)", "Battery", "Low"),
        Allocation("Laptop Charger", "Daytime preferred",
                   LaptopPowerSource(solar_watts), "Medium") >>,
     battery_management |->
        <<BatteryAdvice(battery_pct), "Current solar:", FormatNum(solar_watts), "W.",
          ChargeMode(solar_watts)>>,
     alerts |-> <<
        <<"Current solar production:", FormatNum(solar_watts), "W">>,
        <<"Battery level:", FormatNum(battery_pct), "%">>,
        <<IF solar_watts.tenths >= 0
          THEN "Demo mode active - simulated AI responses" ELSE "">> >>]

(* Python values and model texts.  A JSON value is a dict (with its items)  *)
(* or something else; a text is described by what re.search and json.loads  *)
(* make of it.                                                              *)

PyDict(items) == [pytype |-> "dict", items |-> items]
PyList == [pytype |-> "list", items |-> <<>>]
\* a list with elements; elems maps the positions (e0, e1, ...) to the elements
PyListOf(elems) == [pytype |-> "list", items |-> elems]
Invalid == [pytype |-> "invalid", items |-> <<>>]

\* json.dumps of a dict: a text that starts with "{" and ends with "}"
JsonDumps(value) == [braces |-> TRUE, span |-> value, whole |-> value]

Candidate(text) == [has_content |-> TRUE, text |-> text]

\* origin is a history tag: "simulated" for responses built locally, "api" for
\* bodies the service sent
get_simulated_response(solar_watts, battery_pct) ==
    [origin |-> "simulated",
     candidates |-> <<Candidate(JsonDumps(PyDict(SimulatedPlan(solar_watts, battery_pct))))>>]

NoResponse == [origin |-> "none", candidates |-> <<>>]

\* The state before any call
SolarIdle ==
    /\ pc = "idle"
    /\ prompt = [solar_text |-> <<>>, battery_text |-> <<>>, log_ctx |-> <<>>]
    /\ idx = 1
    /\ attempts = <<>>
    /\ response = NoResponse
    /\ first_response = NoResponse
    /\ client_calls = 0
    /\ energy_log = <<>>
    /\ ta_args = <<IntNum(0), IntNum(0)>>
    /\ result = Invalid
    /\ calls = 0

SimIdle ==
    /\ sim_args = <<IntNum(0), IntNum(0)>>
    /\ sim_out = NoResponse

PipelineIdle ==
    /\ pl_pc = "idle"
    /\ pl_input = "none"
    /\ pipeline_results = <<>>
    /\ layer_result = Invalid
    /\ pl_ran = <<>>
    /\ pl_tools = <<>>
    /\ pl_return = <<>>

RetrieverIdle ==
    /\ kr_pc = "idle"
    /\ kr_args = Invalid
    /\ kr_calls = <<>>

EstimatorIdle ==
    /\ est_pc = "idle"
    /\ est_fn = "none"
    /\ est_data = Invalid
    /\ est_model_calls = 0
    /\ est_return = Invalid

AgentIdle ==
    /\ ag_pc = "idle"
    /\ ag_query = "none"
    /\ ag_standardized = Invalid
    /\ ag_data = Invalid
    /\ ag_knowledge = Invalid
    /\ ag_return = <<>>

\* initialize_agent: the appliances used when the caller gives none
default_appliances ==
    [Refrigerator |-> 200, Lights |-> 50, Television |-> 150, WashingMachine |-> 2000,
     WaterHeater |-> 3000, LaptopCharger |-> 65]

\* SolarEnergyAgent.__init__; creator is a history tag: the request that
\* created the agent (0: the start of the server)
SolarEnergyAgent(creator, battery_capacity_wh, appliances) ==
    [creator |-> creator, battery_capacity_wh |-> battery_capacity_wh,
     appliances |-> appliances, energy_log |-> <<>>]

\* The solar server after its start: initialize_agent() has run
ServerIdle ==
    /\ sv_agents = <<SolarEnergyAgent(0, 10000, default_appliances)>>
    /\ sv_global = 1
    /\ sv_req = <<>>
    /\ sv_overlap = FALSE

\* The paths under UPLOAD_FOLDER that an accepted upload can be saved to
UploadPaths == {[stem |-> "chips", ext |-> "png"], [stem |-> "receipt", ext |-> "jpg"]}

UploadIdle ==
    /\ up_files = [p \in UploadPaths |-> 0]
    /\ up_req = <<>>

----------------------------------------------------------------------------
(* GeminiClient.generate_content                                            *)

models_to_try == <<"gemini-1.5-flash", "gemini-1.5-pro", "gemini-pro">>

\* A plan as the model writes it when it follows the prompt
ModelPlan ==
    [recommendation_summary |-> <<"Run heavy loads at noon.">>,
     energy_allocation_plan |-> <<
        Allocation("Water Heater", "12:00-14:00", "Direct Solar", "High")>>,
     battery_management |-> <<"Charge until 16:00.">>,
     alerts |-> << <<"Excess energy available">> >>]

\* A JSON object that is not a plan
PartialPlan == [note |-> <<"I cannot help with that.">>]

\* The texts a model can answer with, by what re.search(r'\{.*\}') and
\* json.loads make of them
ModelTexts == {
    \* only the JSON object asked for
    [braces |-> TRUE, span |-> PyDict(ModelPlan), whole |-> PyDict(ModelPlan)],
    \* the JSON object wrapped in prose or code fences
    [braces |-> TRUE, span |-> PyDict(ModelPlan), whole |-> Invalid],
    \* a JSON object without the keys of a plan
    [braces |-> TRUE, span |-> PyDict(PartialPlan), whole |-> PyDict(PartialPlan)],
    \* braces around something that is not JSON
    [braces |-> TRUE, span |-> Invalid, whole |-> Invalid],
    \* a JSON array of objects: valid as a whole, the greedy span is not
    [braces |-> TRUE, span |-> Invalid, whole |-> PyList],
    \* prose without braces
    [braces |-> FALSE, span |-> Invalid, whole |-> Invalid],
    \* JSON without braces, such as []
    [braces |-> FALSE, span |-> Invalid, whole |-> PyList] }

\* The bodies response.json() gives for a 200 answer (the service answers 200
\* with a JSON body; what the body holds is up to the service)
ApiBodies ==
    {[origin |-> "api", candidates |-> <<Candidate(t)>>] : t \in ModelTexts}
    \cup {[origin |-> "api",
           candidates |-> <<[has_content |-> FALSE, text |-> JsonDumps(Invalid)]>>],
          [origin |-> "api", candidates |-> <<>>]}

\* What requests.post does for one candidate: raises RequestException, or
\* answers with a status code (and, for 200, a body)
Outcomes ==
    {[kind |-> "exception", status |-> 0, body |-> NoResponse]}
    \cup {[kind |-> "response", status |-> st, body |-> NoResponse] : st \in {429, 500}}
    \cup {[kind |-> "response", status |-> 200, body |-> b] : b \in ApiBodies}

\* Disposition with the success test missed: a 200 answer is passed over
DispositionSkips200(outcome) ==
    IF outcome.kind = "exception" THEN "continue"
    ELSE IF outcome.status = 429 THEN "return_simulated"
    ELSE "continue"

\* Disposition without the rate-limit short-circuit
DispositionNoShortCircuit(outcome) ==
    IF outcome.kind = "exception" THEN "continue"
    ELSE IF outcome.status = 200 THEN "return_json"
    ELSE "continue"

\* What the loop body does with the outcome of one candidate
Disposition(outcome) ==
    IF outcome.kind = "exception" THEN "continue"
    ELSE IF outcome.status = 200 THEN "return_json"
    ELSE IF outcome.status = 429 THEN "return_simulated"
    ELSE "continue"

\* re.search(r'... (\d+) Watts') on the token the prompt holds at that place
ReMatchDigits(token) ==
    /\ Len(token) > 0
    /\ \A i \in 1..Len(token) : IsDigit(token[i])

ExtractSolar(p) ==
    IF ReMatchDigits(p.solar_text) THEN IntNum(IntOfDigits(p.solar_text)) ELSE IntNum(0)

ExtractBattery(p) ==
    IF ReMatchDigits(p.battery_text) THEN IntNum(IntOfDigits(p.battery_text))
    ELSE IntNum(50)

\* AllModelsFailed giving up instead of simulating
AllModelsFailedNoResponse(p) == NoResponse

\* After the loop: every candidate failed
AllModelsFailed(p) == get_simulated_response(ExtractSolar(p), ExtractBattery(p))

\* The rate-limit short-circuit: _get_simulated_response() with its defaults
QuotaExceeded(p) == get_simulated_response(IntNum(0), IntNum(50))

\* One iteration of `for model in models_to_try`; the last failing iteration
\* runs into the code after the loop
TryModel(outcome) ==
    /\ pc = "models"
    /\ attempts' = Append(attempts, [model |-> models_to_try[idx], outcome |-> outcome])
    /\ CASE Disposition(outcome) = "return_json" ->
              /\ response' = outcome.body
              /\ pc' = "returned"
              /\ idx' = idx
         [] Disposition(outcome) = "return_simulated" ->
              /\ response' = QuotaExceeded(prompt)
              /\ pc' = "returned"
              /\ idx' = idx
         [] OTHER ->
              IF idx < Len(models_to_try)
              THEN /\ idx' = idx + 1
                   /\ UNCHANGED <<pc, response>>
              ELSE /\ response' = AllModelsFailed(prompt)
                   /\ pc' = "returned"
                   /\ idx' = idx
    /\ UNCHANGED <<prompt, first_response, client_calls, energy_log, ta_args, result,
                   calls, simVars, pipelineVars,
                   retrieverVars, estimatorVars,
                   agentVars, serverVars, uploadVars>>

----------------------------------------------------------------------------
(* SolarEnergyAgent                                                          *)

\* LastThree without the slice: the whole log
LastThreeWholeLog(log) == log

\* energy_log[-3:]
LastThree(log) ==
    IF Len(log) <= 3 THEN log ELSE SubSeq(log, Len(log) - 2, Len(log))

\* _create_prompt: the parts of the prompt that vary
create_prompt(solar_production_watts, battery_percentage, log) ==
    [solar_text |-> FormatNum(solar_production_watts),
     battery_text |-> FormatNum(battery_percentage),
     log_ctx |-> LastThree(log)]

LogEntry(timestamp, solar_production_watts, battery_percentage) ==
    [timestamp |-> timestamp,
     solar_production_watts |-> solar_production_watts,
     battery_percentage |-> battery_percentage]

\* The arguments track_and_advise is called with: ints as the simulation
\* passes them, floats as the analyze endpoint passes them
TrackInputs == {
    <<IntNum(3500), IntNum(75)>>,
    <<ToFloat(IntNum(3500)), ToFloat(IntNum(75))>>,
    <<IntNum(100), IntNum(85)>>,
    <<IntNum(1500), IntNum(95)>> }

\* track_and_advise up to the model call
TrackAndAdvise(solar_production_watts, battery_percentage) ==
    /\ pc = "idle"
    /\ calls < MaxCalls
    /\ calls' = calls + 1
    /\ ta_args' = <<solar_production_watts, battery_percentage>>
    /\ energy_log' = Append(energy_log,
                            LogEntry(calls', solar_production_watts, battery_percentage))
    /\ prompt' = create_prompt(solar_production_watts, battery_percentage, energy_log')
    /\ idx' = 1
    /\ attempts' = <<>>
    /\ pc' = "models"
    /\ UNCHANGED <<response, first_response, client_calls, result, simVars, pipelineVars,
                   retrieverVars, estimatorVars,
                   agentVars, serverVars, uploadVars>>

\* The except branch: the simulated plan for the arguments as they were passed
ParseFallback(args) ==
    get_simulated_response(args[1], args[2]).candidates[1].text.whole

\* What track_and_advise makes of the response
ParseResponse(resp, args) ==
    IF Len(resp.candidates) = 0
    THEN PyDict([error |-> <<"No response from Gemini API.">>])
    ELSE LET c == resp.candidates[1] IN
         IF ~c.has_content THEN ParseFallback(args)
         ELSE IF c.text.braces
              THEN IF c.text.span.pytype = "invalid"
                   THEN ParseFallback(args) ELSE c.text.span
              ELSE IF c.text.whole.pytype = "invalid"
                   THEN ParseFallback(args) ELSE c.text.whole

\* track_and_advise after generate_content returned
TrackReturn ==
    /\ pc = "returned"
    /\ result' = ParseResponse(response, ta_args)
    /\ pc' = "done"
    /\ UNCHANGED <<prompt, idx, attempts, response, first_response, client_calls,
                   energy_log, ta_args, calls, simVars, pipelineVars,
                   retrieverVars, estimatorVars,
                   agentVars, serverVars, uploadVars>>

\* The caller takes the plan; the call's locals are gone
TrackDone ==
    /\ pc = "done"
    /\ pc' = "idle"
    /\ idx' = 1
    /\ attempts' = <<>>
    /\ response' = NoResponse
    /\ result' = Invalid
    /\ UNCHANGED <<prompt, first_response, client_calls, energy_log, ta_args, calls,
                   simVars, pipelineVars,
                   retrieverVars, estimatorVars,
                   agentVars, serverVars, uploadVars>>

InitAgent ==
    /\ SolarIdle
    /\ SimIdle
    /\ PipelineIdle
    /\ RetrieverIdle
    /\ EstimatorIdle
    /\ AgentIdle
    /\ ServerIdle
    /\ UploadIdle

NextAgent ==
    \/ \E a \in TrackInputs : TrackAndAdvise(a[1], a[2])
    \/ \E o \in Outcomes : TryModel(o)
    \/ TrackReturn
    \/ TrackDone

SpecAgent == InitAgent /\ [][NextAgent]_vars

----------------------------------------------------------------------------
(* generate_content called on one prompt more than once *)

ClientPrompts ==
    {create_prompt(a[1], a[2], <<LogEntry(1, a[1], a[2])>>) : a \in TrackInputs}

InitClient ==
    /\ pc = "idle"
    /\ prompt \in ClientPrompts
    /\ idx = 1
    /\ attempts = <<>>
    /\ response = NoResponse
    /\ first_response = NoResponse
    /\ client_calls = 0
    /\ energy_log = <<>>
    /\ ta_args = <<IntNum(0), IntNum(0)>>
    /\ result = Invalid
    /\ calls = 0
    /\ SimIdle
    /\ PipelineIdle
    /\ RetrieverIdle
    /\ EstimatorIdle
    /\ AgentIdle
    /\ ServerIdle
    /\ UploadIdle

\* generate_content(prompt) is entered; the previous call's answer is kept
GenerateContent ==
    /\ pc \in {"idle", "returned"}
    /\ client_calls < MaxClientCalls
    /\ client_calls' = client_calls + 1
    /\ first_response' = response
    /\ response' = NoResponse
    /\ idx' = 1
    /\ attempts' = <<>>
    /\ pc' = "models"
    /\ UNCHANGED <<prompt, energy_log, ta_args, result, calls, simVars, pipelineVars,
                   retrieverVars, estimatorVars,
                   agentVars, serverVars, uploadVars>>

NextClient ==
    \/ GenerateContent
    \/ \E o \in Outcomes : TryModel(o)

SpecClient == InitClient /\ [][NextClient]_vars

----------------------------------------------------------------------------
(* The rule-based plan as a pure function: inputs drawn at Init *)

SolarInputs ==
    {IntNum(n) : n \in {0, 50, 99, 100, 101, 300, 500, 501, 1000, 1001, 2000, 2001, 3500}}
    \cup {FloatNum(t) : t \in {995, 1000, 1005, 5000, 5005, 20000, 20005, 35000}}

BatteryInputs ==
    {IntNum(n) : n \in {0, 50, 51, 75, 80, 81, 100}}
    \cup {FloatNum(t) : t \in {500, 505, 750, 800, 805}}

InitPlan ==
    /\ sim_args \in SolarInputs \X BatteryInputs
    /\ sim_out = NoResponse
    /\ SolarIdle
    /\ PipelineIdle
    /\ RetrieverIdle
    /\ EstimatorIdle
    /\ AgentIdle
    /\ ServerIdle
    /\ UploadIdle

Simulate ==
    /\ sim_out = NoResponse
    /\ sim_out' = get_simulated_response(sim_args[1], sim_args[2])
    /\ UNCHANGED <<sim_args, solarVars, pipelineVars, retrieverVars, estimatorVars,
                   agentVars, serverVars, uploadVars>>

NextPlan == Simulate

SpecPlan == InitPlan /\ [][NextPlan]_vars

----------------------------------------------------------------------------
(* Carbon footprint pipeline: CarbonFootprintPipeline.run_complete_pipeline  *)
(* and the stages it calls.  Masses are integers in units of 1e-6 kg.        *)

\* InputProcessor._process_with_gemini: the parsed JSON, or None (Invalid)
\* when the call or the parse raised
process_with_gemini(vision) ==
    CASE vision = "typed_record" ->
            PyDict([type |-> "product_photo",
                    product_name |-> "Lay's Classic Potato Chips", brand |-> "Lay's"])
      [] vision = "untyped_record" ->
            PyDict([product_name |-> "Lay's Classic Potato Chips", brand |-> "Lay's"])
      [] vision = "json_array" -> PyList
      [] OTHER -> Invalid

\* InputProcessor._process_with_tesseract
process_with_tesseract(ocr) ==
    IF ocr = "text"
    THEN PyDict([type |-> "ocr_fallback", source |-> "Tesseract",
                 raw_text |-> "LAY'S CLASSIC"])
    ELSE Invalid

\* os.path.exists(input_data)
PathExists(input_data) == input_data = "uploads/chips.png"

\* InputProcessor.process_input
process_input(input_data, vision, ocr) ==
    IF PathExists(input_data)
    THEN LET r1 == process_with_gemini(vision)
             r2 == IF r1.pytype = "invalid" THEN process_with_tesseract(ocr) ELSE r1
         IN  IF r2.pytype = "invalid"
             THEN PyDict([error |-> "Failed to process image with all available tools."])
             ELSE r2
    ELSE PyDict([type |-> "manual_text", content |-> input_data])

\* process_input running the OCR pass after the vision pass in every case
process_input_callsAlwaysOcr(input_data, vision, ocr) ==
    IF PathExists(input_data)
    THEN <<[tool |-> "_process_with_gemini",
            ok |-> process_with_gemini(vision).pytype # "invalid"],
           [tool |-> "_process_with_tesseract",
            ok |-> process_with_tesseract(ocr).pytype # "invalid"]>>
    ELSE <<>>

\* The tools process_input invokes, in order, and whether each gave a result
process_input_calls(input_data, vision, ocr) ==
    IF PathExists(input_data)
    THEN LET r1 == process_with_gemini(vision)
             r2 == process_with_tesseract(ocr)
         IN  IF r1.pytype = "invalid"
             THEN <<[tool |-> "_process_with_gemini", ok |-> FALSE],
                    [tool |-> "_process_with_tesseract", ok |-> r2.pytype # "invalid"]>>
             ELSE <<[tool |-> "_process_with_gemini", ok |-> TRUE]>>
    ELSE <<>>

VisionOutcomes == {"typed_record", "untyped_record", "json_array", "failed"}
OcrOutcomes == {"text", "failed"}
PipelineInputs == {"uploads/chips.png", "uploads/missing.png"}

\* The names the standardization model may answer with ("null" stands for a
\* JSON null in place of a name) and the categories (one outside the list)
CanonicalNames ==
    {"Lay's Classic Potato Chips (1 oz)", "Coca-Cola, 0.5L, PET Bottle",
     "Quantum Widget", "null"}
ModelCategories == {"Food", "Beverage", "Electronics", "Snacks"}

\* What the standardization model call gives: it raises, or answers with a text
\* that json.loads fails on, or turns into a list (empty, or of the two key
\* names), or into a dict (perhaps without the keys)
StandardizerOutcomes ==
    {[kind |-> "api_error", value |-> Invalid],
     [kind |-> "text", value |-> Invalid],
     [kind |-> "text", value |-> PyList],
     [kind |-> "text", value |-> PyListOf([e0 |-> "canonical_name", e1 |-> "category"])],
     [kind |-> "text", value |-> PyDict([canonical_name |-> "Quantum Widget"])]}
    \cup {[kind |-> "text", value |-> PyDict([canonical_name |-> n, category |-> c])] :
            n \in CanonicalNames, c \in ModelCategories}

\* key in value, for a parsed dict (its keys) or list (its elements)
Contains(value, key) ==
    IF value.pytype = "dict"
    THEN key \in DOMAIN value.items
    ELSE \E e \in DOMAIN value.items : value.items[e] = key

\* EntityStandardizer.standardize_json
standardize_json(json_data, outcome) ==
    IF outcome.kind = "api_error"
    THEN PyDict([canonical_name |-> "API call failed", category |-> "Error"])
    ELSE IF outcome.value.pytype = "invalid"
    THEN PyDict([canonical_name |-> "Error processing JSON", category |-> "Error"])
    ELSE IF \/ ~Contains(outcome.value, "canonical_name")
            \/ ~Contains(outcome.value, "category")
    THEN PyDict([canonical_name |-> "Error processing JSON", category |-> "Error"])
    ELSE outcome.value

\* canonical_name.lower() is defined for strings only; "null" stands for the
\* JSON null the model may put in place of a name
IsString(name) == name # "null"

\* "lay's classic potato chips" in canonical_name.lower()
MentionsLays(name) == name = "Lay's Classic Potato Chips (1 oz)"

\* fallback_values.get(category, 5.0)
FallbackValue(category) ==
    CASE category = "Food" -> 1500000
      [] category = "Beverage" -> 500000
      [] category = "Clothing" -> 7000000
      [] category = "Electronics" -> 25000000
      [] category = "Flights" -> 115000
      [] category = "Other" -> 5000000
      [] OTHER -> 5000000

\* Layer 3 as the pipeline computes it
retrieve_knowledge(canonical_name, category) ==
    IF MentionsLays(canonical_name)
    THEN [canonical_name |-> canonical_name, category |-> category, co2e_kg |-> 75000,
          source |-> "Simulated Web Scrape (GoodFood Institute Report)",
          confidence |-> "Medium"]
    ELSE [canonical_name |-> canonical_name, category |-> category,
          co2e_kg |-> FallbackValue(category),
          source |-> "Category Fallback Heuristic", confidence |-> "Low"]

\* round(x, 4)
Round4(x) ==
    LET q == x \div 100
        r == x % 100
    IN  IF r < 50 THEN 100 * q
        ELSE IF r > 50 THEN 100 * (q + 1)
        ELSE IF q % 2 = 0 THEN 100 * q ELSE 100 * (q + 1)

\* _calculate_from_components leaving the transport part out of the total
calculate_from_componentsNoTransport(production_impact, packaging_impact, transport_impact) ==
    [total_co2e_kg |-> Round4(production_impact + packaging_impact),
     breakdown |-> [production |-> Round4(production_impact),
                    packaging |-> Round4(packaging_impact),
                    transport |-> Round4(transport_impact)],
     formula |-> "Total = Production + Packaging + Transport"]

\* FootprintEstimator._calculate_from_components
calculate_from_components(production_impact, packaging_impact, transport_impact) ==
    [total_co2e_kg |-> Round4(production_impact + packaging_impact + transport_impact),
     breakdown |-> [production |-> Round4(production_impact),
                    packaging |-> Round4(packaging_impact),
                    transport |-> Round4(transport_impact)],
     formula |-> "Total = Production + Packaging + Transport"]

\* What the breakdown model call gives for a total: it raises, or answers with
\* a text that json.loads fails on, or turns into a list, or into a dict of
\* numbers (a split of the total, the example of the prompt, a dict without
\* transport_impact, or numbers finer than 4 decimals)
BreakdownOutcomes(total_co2e) ==
    {[kind |-> "api_error", value |-> Invalid],
     [kind |-> "text", value |-> Invalid],
     [kind |-> "text", value |-> PyList],
     [kind |-> "text",
      value |-> PyDict([production_impact |-> (total_co2e * 50) \div 100,
                        packaging_impact |-> (total_co2e * 30) \div 100,
                        transport_impact |-> (total_co2e * 20) \div 100])],
     [kind |-> "text",
      value |-> PyDict([production_impact |-> 100000, packaging_impact |-> 50000,
                        transport_impact |-> 20000])],
     [kind |-> "text",
      value |-> PyDict([production_impact |-> 100000, packaging_impact |-> 50000])],
     [kind |-> "text",
      value |-> PyDict([production_impact |-> 40, packaging_impact |-> 40,
                        transport_impact |-> 40])]}

\* dict.get(key, 0)
GetOr0(items, key) == IF key \in DOMAIN items THEN items[key] ELSE 0

\* The fallback breakdown of the pipeline: 60 / 20 / 20
PipelineFallbackSplit(total_co2e) ==
    [production_impact |-> (total_co2e * 60) \div 100,
     packaging_impact |-> (total_co2e * 20) \div 100,
     transport_impact |-> (total_co2e * 20) \div 100]

\* The mapping an except branch of run_complete_pipeline returns
LayerNames ==
    <<"Layer 1 (Input Processing) failed", "Layer 2 (Entity Standardization) failed",
      "Layer 3 (Knowledge Retrieval) failed", "Layer 4 (Footprint Estimation) failed",
      "Layer 5 (Final Summary) failed">>

\* LayerFailed returning the partial results with the error added
LayerFailedKeepsPartial(n, details) ==
    [error |-> LayerNames[n], details |-> details] @@ pipeline_results

LayerFailed(n, details) == [error |-> LayerNames[n], details |-> details]

\* run_complete_pipeline is entered
run_complete_pipeline(image_path) ==
    /\ pl_pc = "idle"
    /\ pl_input' = image_path
    /\ pipeline_results' = <<>>
    /\ pl_pc' = "layer1"
    /\ UNCHANGED <<layer_result, pl_ran, pl_tools, pl_return, simVars, solarVars,
                   retrieverVars, estimatorVars,
                   agentVars, serverVars, uploadVars>>

\* Layer 1: input processing
Layer1(vision, ocr) ==
    /\ pl_pc = "layer1"
    /\ LET layer1_result == process_input(pl_input, vision, ocr) IN
        IF layer1_result.pytype # "dict"
        THEN \* layer1_result.get raises AttributeError
             /\ pl_ran' = Append(pl_ran, [layer |-> 1, input |-> pl_input, raised |-> TRUE])
             /\ pl_return' = LayerFailed(1, "'list' object has no attribute 'get'")
             /\ pl_pc' = "done"
             /\ pipeline_results' = ("layer1_input_processing" :> layer1_result)
                                        @@ pipeline_results
             /\ UNCHANGED layer_result
        ELSE /\ pl_ran' = Append(pl_ran, [layer |-> 1, input |-> pl_input, raised |-> FALSE])
             /\ pipeline_results' = ("layer1_input_processing" :> layer1_result)
                                        @@ pipeline_results
             /\ layer_result' = layer1_result
             /\ pl_pc' = "layer2"
             /\ UNCHANGED pl_return
    /\ pl_tools' = process_input_calls(pl_input, vision, ocr)
    /\ UNCHANGED <<pl_input, simVars, solarVars, retrieverVars, estimatorVars,
                   agentVars, serverVars, uploadVars>>

\* Layer 2: entity standardization
Layer2(outcome) ==
    /\ pl_pc = "layer2"
    /\ LET layer2_result == standardize_json(layer_result, outcome) IN
        /\ pipeline_results' = ("layer2_standardization" :> layer2_result)
                                   @@ pipeline_results
        /\ IF layer2_result.pytype # "dict"
           THEN \* layer2_result.get raises AttributeError
                /\ pl_ran' = Append(pl_ran, [layer |-> 2, input |-> layer_result,
                                             answer |-> outcome, raised |-> TRUE])
                /\ pl_return' = LayerFailed(2, "'list' object has no attribute 'get'")
                /\ pl_pc' = "done"
                /\ UNCHANGED layer_result
           ELSE /\ pl_ran' = Append(pl_ran, [layer |-> 2, input |-> layer_result,
                                             answer |-> outcome, raised |-> FALSE])
                /\ layer_result' = layer2_result
                /\ pl_pc' = "layer3"
                /\ UNCHANGED pl_return
    /\ UNCHANGED <<pl_input, pl_tools, simVars, solarVars, retrieverVars, estimatorVars,
                   agentVars, serverVars, uploadVars>>

\* Layer 3: knowledge retrieval
Layer3 ==
    /\ pl_pc = "layer3"
    /\ LET canonical_name == layer_result.items.canonical_name
           category == layer_result.items.category
       IN
        IF ~IsString(canonical_name)
        THEN \* canonical_name.lower() raises AttributeError
             /\ pl_ran' = Append(pl_ran, [layer |-> 3, input |-> layer_result, raised |-> TRUE])
             /\ pl_return' = LayerFailed(3, "'NoneType' object has no attribute 'lower'")
             /\ pl_pc' = "done"
             /\ UNCHANGED <<pipeline_results, layer_result>>
        ELSE LET layer3_result == PyDict(retrieve_knowledge(canonical_name, category)) IN
             /\ pl_ran' = Append(pl_ran, [layer |-> 3, input |-> layer_result, raised |-> FALSE])
             /\ pipeline_results' = ("layer3_knowledge_retrieval" :> layer3_result)
                                        @@ pipeline_results
             /\ layer_result' = layer3_result
             /\ pl_pc' = "layer4"
             /\ UNCHANGED pl_return
    /\ UNCHANGED <<pl_input, pl_tools, simVars, solarVars,
                   retrieverVars, estimatorVars,
                   agentVars, serverVars, uploadVars>>

\* Layer 4: footprint estimation
Layer4 ==
    /\ pl_pc = "layer4"
    /\ \E outcome \in BreakdownOutcomes(layer_result.items.co2e_kg) :
       LET layer3_result == layer_result.items
           total_co2e == layer3_result.co2e_kg
       IN
        IF outcome.kind = "api_error"
        THEN \* _breakdown_total_co2e lets the error of the model call through
             /\ pl_ran' = Append(pl_ran, [layer |-> 4, input |-> layer_result, raised |-> TRUE])
             /\ pl_return' = LayerFailed(4, "503 The service is currently unavailable.")
             /\ pl_pc' = "done"
             /\ UNCHANGED <<pipeline_results, layer_result>>
        ELSE IF outcome.value.pytype = "list"
        THEN \* estimated_components.get raises AttributeError
             /\ pl_ran' = Append(pl_ran, [layer |-> 4, input |-> layer_result, raised |-> TRUE])
             /\ pl_return' = LayerFailed(4, "'list' object has no attribute 'get'")
             /\ pl_pc' = "done"
             /\ UNCHANGED <<pipeline_results, layer_result>>
        ELSE LET estimated_components ==
                    IF outcome.value.pytype = "invalid"
                    THEN PipelineFallbackSplit(total_co2e)
                    ELSE outcome.value.items
                 layer4_result ==
                    PyDict(calculate_from_components(
                               GetOr0(estimated_components, "production_impact"),
                               GetOr0(estimated_components, "packaging_impact"),
                               GetOr0(estimated_components, "transport_impact"))
                           @@ [notes |-> "Component breakdown was estimated by AI.",
                               canonical_name |-> layer3_result.canonical_name,
                               source |-> layer3_result.source,
                               confidence |-> layer3_result.confidence])
             IN
             /\ pl_ran' = Append(pl_ran, [layer |-> 4, input |-> layer_result, raised |-> FALSE])
             /\ pipeline_results' = ("layer4_footprint_estimation" :> layer4_result)
                                        @@ pipeline_results
             /\ layer_result' = layer4_result
             /\ pl_pc' = "layer5"
             /\ UNCHANGED pl_return
    /\ UNCHANGED <<pl_input, pl_tools, simVars, solarVars,
                   retrieverVars, estimatorVars,
                   agentVars, serverVars, uploadVars>>

\* Layer 5 returning the summary alone
Layer5ReturnsSummary ==
    /\ pl_pc = "layer5"
    /\ pl_ran' = Append(pl_ran, [layer |-> 5, input |-> layer_result, raised |-> FALSE])
    /\ pipeline_results' = ("layer5_final_summary" :> layer_result.items.notes)
                               @@ pipeline_results
    /\ pl_return' = ("layer5_final_summary" :> layer_result.items.notes)
    /\ pl_pc' = "done"
    /\ UNCHANGED <<pl_input, layer_result, pl_tools, simVars, solarVars,
                   retrieverVars, estimatorVars,
                   agentVars, serverVars, uploadVars>>

\* Layer 5: the final summary, and the return of the accumulated results
Layer5 ==
    /\ pl_pc = "layer5"
    /\ LET layer4_result == layer_result.items
           final_summary ==
              <<layer4_result.canonical_name, layer4_result.total_co2e_kg,
                layer4_result.breakdown.production, layer4_result.breakdown.packaging,
                layer4_result.breakdown.transport, layer4_result.source,
                layer4_result.confidence, layer4_result.notes, layer4_result.formula>>
       IN
        /\ pl_ran' = Append(pl_ran, [layer |-> 5, input |-> layer_result, raised |-> FALSE])
        /\ pipeline_results' = ("layer5_final_summary" :> final_summary) @@ pipeline_results
        /\ pl_return' = pipeline_results'
        /\ pl_pc' = "done"
    /\ UNCHANGED <<pl_input, layer_result, pl_tools, simVars, solarVars,
                   retrieverVars, estimatorVars,
                   agentVars, serverVars, uploadVars>>

InitPipeline ==
    /\ SolarIdle
    /\ SimIdle
    /\ PipelineIdle
    /\ RetrieverIdle
    /\ EstimatorIdle
    /\ AgentIdle
    /\ ServerIdle
    /\ UploadIdle

NextPipeline ==
    \/ \E i \in PipelineInputs : run_complete_pipeline(i)
    \/ \E v \in VisionOutcomes, o \in OcrOutcomes : Layer1(v, o)
    \/ \E o \in StandardizerOutcomes : Layer2(o)
    \/ Layer3
    \/ Layer4
    \/ Layer5

SpecPipeline == InitPipeline /\ [][NextPipeline]_vars

----------------------------------------------------------------------------
(* KnowledgeRetriever: the three tools and run_agentic_loop                  *)

\* EntityStandardizer.categories
categories == {"Food", "Beverage", "Clothing", "Electronics", "Flights", "Other"}

\* str.lower() on the names of the model
Lower(name) ==
    CASE name = "Lay's Classic Potato Chips (1 oz)" -> "lay's classic potato chips (1 oz)"
      [] name = "Coca-Cola, 0.5L, PET Bottle" -> "coca-cola, 0.5l, pet bottle"
      [] name = "Quantum Widget" -> "quantum widget"
      [] OTHER -> name

MOCK_INTERNAL_DATABASE ==
    ("coca-cola, 0.5l, pet bottle" :>
        [co2e_kg |-> 170000, source |-> "Internal DB (EcoInvent)", confidence |-> "High"])
    @@ ("t-shirt, cotton, blue, large" :>
        [co2e_kg |-> 6800000, source |-> "Internal DB (OpenApparel)",
         confidence |-> "High"])

MOCK_CATEGORY_FALLBACKS ==
    [Food |-> 1500000, Beverage |-> 500000, Clothing |-> 7000000,
     Electronics |-> 25000000, Flights |-> 115000, Other |-> 5000000]

\* KnowledgeRetriever._lookup_internal_database
lookup_internal_database(canonical_name) ==
    IF Lower(canonical_name) \in DOMAIN MOCK_INTERNAL_DATABASE
    THEN PyDict(MOCK_INTERNAL_DATABASE[Lower(canonical_name)])
    ELSE PyDict([error |-> "Product not found in the internal database."])

\* KnowledgeRetriever._search_web_for_footprint_data
search_web_for_footprint_data(canonical_name) ==
    \* "lay's classic potato chips" in canonical_name.lower()
    IF Lower(canonical_name) = "lay's classic potato chips (1 oz)"
    THEN PyDict([co2e_kg |-> 75000,
                 source |-> "Simulated Web Scrape (GoodFood Institute Report)",
                 confidence |-> "Medium",
                 notes |-> "Based on potato farming, processing, and packaging."])
    ELSE PyDict([error |-> "Could not find reliable footprint data from web search."])

\* KnowledgeRetriever._use_category_fallback_heuristic
use_category_fallback_heuristic(category) ==
    IF category \in DOMAIN MOCK_CATEGORY_FALLBACKS
    THEN PyDict([co2e_kg |-> MOCK_CATEGORY_FALLBACKS[category],
                 source |-> "Category Fallback Heuristic", confidence |-> "Low"])
    ELSE PyDict([error |-> "Category has no fallback value."])

\* tool calls executed by one run of the loop
MaxToolCalls == 3

ToolNames ==
    {"_lookup_internal_database", "_search_web_for_footprint_data",
     "_use_category_fallback_heuristic"}

\* What the planner answers a message with: a call of one of the tools, a call
\* of a function that is not a tool, a text (no function call), or the chat
\* raises
PlannerAnswers == ToolNames \cup {"_search_lca_registry", "text", "api_error"}

RetrieverInputs ==
    {PyDict([canonical_name |-> n, category |-> c]) :
        n \in CanonicalNames, c \in ModelCategories}

\* run_agentic_loop is entered and sends the initial prompt
run_agentic_loop(standardized_data) ==
    /\ kr_pc = "idle"
    /\ kr_args' = standardized_data
    /\ kr_pc' = "planning"
    /\ UNCHANGED <<kr_calls, simVars, solarVars, pipelineVars, estimatorVars,
                   agentVars, serverVars, uploadVars>>

\* The planner's answer arrives: the loop executes the tool the answer names,
\* with the name and category of the prompt, and sends the output back
PlannerStep(answer) ==
    /\ kr_pc = "planning"
    /\ LET canonical_name == kr_args.items.canonical_name
           category == kr_args.items.category
       IN
        IF answer = "api_error"
        THEN \* chat.send_message raised
             /\ kr_pc' = "raised"
             /\ UNCHANGED kr_calls
        ELSE IF answer = "text"
        THEN \* function_call.name is empty: the loop ends
             /\ kr_pc' = "done"
             /\ UNCHANGED kr_calls
        ELSE IF answer \notin ToolNames
        THEN \* raise ValueError("Unknown tool")
             /\ kr_pc' = "raised"
             /\ UNCHANGED kr_calls
        ELSE IF answer # "_use_category_fallback_heuristic" /\ ~IsString(canonical_name)
        THEN \* canonical_name.lower() raises AttributeError
             /\ kr_pc' = "raised"
             /\ UNCHANGED kr_calls
        ELSE /\ Len(kr_calls) < MaxToolCalls
             /\ kr_calls' = Append(kr_calls,
                   [tool |-> answer,
                    output |->
                      CASE answer = "_lookup_internal_database" ->
                              lookup_internal_database(canonical_name)
                        [] answer = "_search_web_for_footprint_data" ->
                              search_web_for_footprint_data(canonical_name)
                        [] OTHER -> use_category_fallback_heuristic(category)])
             /\ UNCHANGED kr_pc
    /\ UNCHANGED <<kr_args, simVars, solarVars, pipelineVars, estimatorVars,
                   agentVars, serverVars, uploadVars>>

InitRetriever ==
    /\ SolarIdle
    /\ SimIdle
    /\ PipelineIdle
    /\ RetrieverIdle
    /\ EstimatorIdle
    /\ AgentIdle
    /\ ServerIdle
    /\ UploadIdle

NextRetriever ==
    \/ \E d \in RetrieverInputs : run_agentic_loop(d)
    \/ \E a \in PlannerAnswers : PlannerStep(a)

SpecRetriever == InitRetriever /\ [][NextRetriever]_vars

----------------------------------------------------------------------------
(* FootprintEstimator.estimate and                                           *)
(* CarbonFootprintAgent._estimate_footprint_breakdown                        *)

\* Component values of the records handed to estimate (5.5, 0.3 and 1.0 are
\* those of MOCK_LCA_DATABASE; the others are finer than 4 decimals)
ProductionValues == {5500000, 123456, 49, 2000050}
PackagingValues == {300000, 50, 150, 77777}
TransportValues == {1000000, 0, 33349, 250}

EstimatorInputs ==
    {PyDict([canonical_name |-> "T-Shirt, Cotton, Made in India",
             source |-> "Internal LCA DB", confidence |-> "High",
             components |-> [production_impact |-> p, packaging_impact |-> k,
                             transport_impact |-> t]]) :
        p \in ProductionValues, k \in PackagingValues, t \in TransportValues}
    \cup {PyDict([canonical_name |-> "T-Shirt, Cotton, Made in India", co2e_kg |-> 6800000,
                  components |-> [production_impact |-> 5500000,
                                  packaging_impact |-> 300000]])}
    \cup {PyDict([canonical_name |-> "Quantum Widget", co2e_kg |-> c,
                  source |-> "Category Fallback Heuristic", confidence |-> "Low"]) :
            c \in {75000, 170000, 1500000, 5000000, 6800000}}
    \cup {PyDict([canonical_name |-> "Quantum Widget"]),
          PyDict([error |-> "Product not found in the internal database."])}

\* The fallback breakdown of estimate: 70 / 20 / 10
EstimatorFallbackSplit(total_co2e) ==
    [production_impact |-> (total_co2e * 70) \div 100,
     packaging_impact |-> (total_co2e * 20) \div 100,
     transport_impact |-> (total_co2e * 10) \div 100]

\* FootprintEstimator.estimate up to its return or to the model call
estimate(retrieval_data) ==
    /\ est_pc = "idle"
    /\ est_fn' = "estimate"
    /\ est_data' = retrieval_data
    /\ IF "components" \in DOMAIN retrieval_data.items
       THEN LET components == retrieval_data.items.components IN
            /\ est_return' = PyDict(calculate_from_components(
                                        GetOr0(components, "production_impact"),
                                        GetOr0(components, "packaging_impact"),
                                        GetOr0(components, "transport_impact")))
            /\ est_pc' = "done"
       ELSE IF "co2e_kg" \in DOMAIN retrieval_data.items
       THEN /\ est_pc' = "breakdown_total_co2e"
            /\ UNCHANGED est_return
       ELSE /\ est_return' =
                 PyDict([error |-> "Input data has neither 'components' nor 'co2e_kg'."])
            /\ est_pc' = "done"
    /\ UNCHANGED <<est_model_calls, simVars, solarVars, pipelineVars, retrieverVars,
                   agentVars, serverVars, uploadVars>>

\* estimate from the model call of _breakdown_total_co2e to the return
EstimateBreakdown ==
    /\ est_pc = "breakdown_total_co2e"
    /\ \E outcome \in BreakdownOutcomes(est_data.items.co2e_kg) :
       LET total_co2e == est_data.items.co2e_kg IN
        /\ est_model_calls' = est_model_calls + 1
        /\ IF outcome.kind = "api_error"
           THEN \* the error of the model call is not caught
                /\ est_pc' = "raised"
                /\ UNCHANGED est_return
           ELSE /\ est_pc' = "done"
                /\ est_return' =
                     IF outcome.value.pytype = "dict"
                     THEN LET estimated_components == outcome.value.items IN
                          PyDict(calculate_from_components(
                                     GetOr0(estimated_components, "production_impact"),
                                     GetOr0(estimated_components, "packaging_impact"),
                                     GetOr0(estimated_components, "transport_impact"))
                                 @@ [notes |-> "Component breakdown was estimated by AI."])
                     ELSE \* JSONDecodeError, or AttributeError of list.get
                          LET estimated_components == EstimatorFallbackSplit(total_co2e) IN
                          PyDict(calculate_from_components(
                                     estimated_components.production_impact,
                                     estimated_components.packaging_impact,
                                     estimated_components.transport_impact)
                                 @@ [notes |-> "Component breakdown used fallback percentages due to parsing error."])
    /\ UNCHANGED <<est_fn, est_data, simVars, solarVars, pipelineVars, retrieverVars,
                   agentVars, serverVars, uploadVars>>

\* What CarbonFootprintAgent._retrieve_knowledge hands to the estimation
AgentInputs ==
    {PyDict([co2e_kg |-> 75000, source |-> "Simulated Web Scrape",
             confidence |-> "Medium"]),
     PyDict([co2e_kg |-> 1500000, source |-> "Category Fallback", confidence |-> "Low"])}

\* The fallback breakdown of the agent: 60 / 20 / 20
AgentFallbackSplit(total_co2e) ==
    [production_impact |-> (total_co2e * 60) \div 100,
     packaging_impact |-> (total_co2e * 20) \div 100,
     transport_impact |-> (total_co2e * 20) \div 100]

\* CarbonFootprintAgent._estimate_footprint_breakdown up to the model call
estimate_footprint_breakdown(retrieved_data) ==
    /\ est_pc = "idle"
    /\ est_fn' = "_estimate_footprint_breakdown"
    /\ est_data' = retrieved_data
    /\ est_pc' = "generate_content"
    /\ UNCHANGED <<est_return, est_model_calls, simVars, solarVars, pipelineVars,
                   retrieverVars,
                   agentVars, serverVars, uploadVars>>

\* _estimate_footprint_breakdown from the model call to the return
AgentBreakdown ==
    /\ est_pc = "generate_content"
    /\ \E outcome \in BreakdownOutcomes(est_data.items.co2e_kg) :
       LET total_co2e == est_data.items.co2e_kg IN
        /\ est_model_calls' = est_model_calls + 1
        /\ IF outcome.kind = "api_error"
           THEN /\ est_pc' = "raised"
                /\ UNCHANGED est_return
           ELSE LET breakdown ==
                      IF outcome.value.pytype = "invalid"
                      THEN PyDict(AgentFallbackSplit(total_co2e))
                      ELSE outcome.value
                IN
                /\ est_pc' = "done"
                /\ est_return' =
                     PyDict([total_co2e_kg |-> total_co2e, breakdown |-> breakdown,
                             notes |-> "Component breakdown was estimated by AI."])
    /\ UNCHANGED <<est_fn, est_data, simVars, solarVars, pipelineVars, retrieverVars,
                   agentVars, serverVars, uploadVars>>

InitEstimator ==
    /\ SolarIdle
    /\ SimIdle
    /\ PipelineIdle
    /\ RetrieverIdle
    /\ EstimatorIdle
    /\ AgentIdle
    /\ ServerIdle
    /\ UploadIdle

NextEstimator ==
    \/ \E d \in EstimatorInputs : estimate(d)
    \/ EstimateBreakdown
    \/ \E d \in AgentInputs : estimate_footprint_breakdown(d)
    \/ AgentBreakdown

SpecEstimator == InitEstimator /\ [][NextEstimator]_vars

----------------------------------------------------------------------------
(* CarbonFootprintAgent.run                                                  *)

RunQueries == {"lays chips 1oz", "blue cotton t-shirt"}

\* CarbonFootprintAgent._retrieve_knowledge
agent_retrieve_knowledge(canonical_name) ==
    IF MentionsLays(canonical_name)
    THEN PyDict([co2e_kg |-> 75000, source |-> "Simulated Web Scrape",
                 confidence |-> "Medium"])
    ELSE PyDict([co2e_kg |-> 1500000, source |-> "Category Fallback", confidence |-> "Low"])

\* The standardized_data run uses when standardized_result does not parse
RunFallbackStandardization(user_query) ==
    PyDict([canonical_name |-> user_query, category |-> "Food"])

\* run is entered and calls _standardize_entity
run(user_query) ==
    /\ ag_pc = "idle"
    /\ ag_query' = user_query
    /\ ag_pc' = "standardize_entity"
    /\ UNCHANGED <<ag_standardized, ag_data, ag_knowledge, ag_return, simVars, solarVars,
                   pipelineVars, retrieverVars, estimatorVars, serverVars, uploadVars>>

\* Steps 1 and 2 of run: the model call of _standardize_entity returns, its
\* text is parsed, and the knowledge is retrieved
RunStandardize(outcome) ==
    /\ ag_pc = "standardize_entity"
    /\ IF outcome.kind = "api_error"
       THEN \* the error of the model call is not caught
            /\ ag_pc' = "raised"
            /\ UNCHANGED <<ag_standardized, ag_data, ag_knowledge>>
       ELSE LET standardized_data ==
                   IF outcome.value.pytype = "invalid"
                   THEN RunFallbackStandardization(ag_query)
                   ELSE outcome.value
            IN
            /\ ag_standardized' = outcome.value
            /\ ag_data' = standardized_data
            /\ IF \/ standardized_data.pytype # "dict"
                  \/ "canonical_name" \notin DOMAIN standardized_data.items
                  \/ "category" \notin DOMAIN standardized_data.items
               THEN \* standardized_data['canonical_name'] raises TypeError or KeyError
                    /\ ag_pc' = "raised"
                    /\ UNCHANGED ag_knowledge
               ELSE IF ~IsString(standardized_data.items.canonical_name)
               THEN \* canonical_name.lower() raises AttributeError
                    /\ ag_pc' = "raised"
                    /\ UNCHANGED ag_knowledge
               ELSE /\ ag_knowledge' =
                         agent_retrieve_knowledge(standardized_data.items.canonical_name)
                    /\ ag_pc' = "estimate_footprint_breakdown"
    /\ UNCHANGED <<ag_query, ag_return, simVars, solarVars, pipelineVars, retrieverVars,
                   estimatorVars, serverVars, uploadVars>>

\* Step 3 of run: _estimate_footprint_breakdown is called on the knowledge
RunEstimate ==
    /\ ag_pc = "estimate_footprint_breakdown"
    /\ estimate_footprint_breakdown(ag_knowledge)

\* Step 4 of run: _generate_final_summary, and the return of the mapping
RunSummary ==
    /\ ag_pc = "estimate_footprint_breakdown"
    /\ est_pc \in {"done", "raised"}
    /\ IF est_pc = "raised"
       THEN \* the error of the model call of the estimation is not caught
            /\ ag_pc' = "raised"
            /\ UNCHANGED ag_return
       ELSE IF ag_standardized.pytype = "invalid"
       THEN \* json.loads(standardized_data_json) raises JSONDecodeError
            /\ ag_pc' = "raised"
            /\ UNCHANGED ag_return
       ELSE IF est_return.items.breakdown.pytype # "dict"
       THEN \* final_data['breakdown'].get raises AttributeError
            /\ ag_pc' = "raised"
            /\ UNCHANGED ag_return
       ELSE /\ ag_pc' = "done"
            /\ ag_return' =
                 [standardized_data |-> ag_data, knowledge_data |-> ag_knowledge,
                  estimation_data |-> est_return,
                  final_summary |->
                     <<ag_standardized.items.canonical_name,
                       est_return.items.total_co2e_kg,
                       GetOr0(est_return.items.breakdown.items, "production_impact"),
                       GetOr0(est_return.items.breakdown.items, "packaging_impact"),
                       GetOr0(est_return.items.breakdown.items, "transport_impact"),
                       est_return.items.notes>>]
    /\ UNCHANGED <<ag_query, ag_standardized, ag_data, ag_knowledge, simVars, solarVars,
                   pipelineVars, retrieverVars, estimatorVars, serverVars, uploadVars>>

InitRun ==
    /\ SolarIdle
    /\ SimIdle
    /\ PipelineIdle
    /\ RetrieverIdle
    /\ EstimatorIdle
    /\ AgentIdle
    /\ ServerIdle
    /\ UploadIdle

NextRun ==
    \/ \E q \in RunQueries : run(q)
    \/ \E o \in StandardizerOutcomes : RunStandardize(o)
    \/ RunEstimate
    \/ AgentBreakdown
    \/ RunSummary

SpecRun == InitRun /\ [][NextRun]_vars

----------------------------------------------------------------------------
(* api_server.py: POST /api/analyze, one thread per request                  *)

MaxUploads == 2

ALLOWED_EXTENSIONS == {"png", "jpg", "jpeg", "webp"}

\* What a request carries as its 'image' part: none, a part with an empty
\* filename, or a part with a client-chosen filename
Uploads ==
    {[present |-> FALSE, dir |-> "", stem |-> "", ext |-> ""],
     [present |-> TRUE, dir |-> "", stem |-> "", ext |-> ""],
     [present |-> TRUE, dir |-> "", stem |-> "notes", ext |-> "txt"],
     [present |-> TRUE, dir |-> "", stem |-> "chips", ext |-> "png"],
     [present |-> TRUE, dir |-> "../", stem |-> "chips", ext |-> "png"],
     [present |-> TRUE, dir |-> "", stem |-> "receipt", ext |-> "jpg"]}

allowed_file(file) == file.ext # "" /\ file.ext \in ALLOWED_EXTENSIONS

\* werkzeug's secure_filename drops the directory part of the name
secure_filename(file) == [stem |-> file.stem, ext |-> file.ext]

PipelineOutcomes == {"success", "error_result", "raises"}

UploadRequest(file) ==
    [file |-> file, pc |-> "received", temp_path |-> secure_filename(file), saved |-> FALSE,
     seen |-> 0, outcome |-> "none", removed |-> FALSE, status |-> 0, body |-> {}]

UploadRespond(req, status, body) == [req EXCEPT !.pc = "done", !.status = status, !.body = body]

os_removeKeepsFile(files, path) == files

\* os.remove(temp_path); the OSError of a missing file is passed over
os_remove(files, path) == [files EXCEPT ![path] = 0]

\* A request arrives and is validated
analyze_carbon_footprint(file) ==
    /\ Len(up_req) < MaxUploads
    /\ up_req' = Append(up_req,
          IF ~file.present
          THEN UploadRespond(UploadRequest(file), 400, {"error", "message"})
          ELSE IF file.stem = "" /\ file.ext = ""
          THEN UploadRespond(UploadRequest(file), 400, {"error", "message"})
          ELSE IF ~allowed_file(file)
          THEN UploadRespond(UploadRequest(file), 400, {"error", "message"})
          ELSE [UploadRequest(file) EXCEPT !.pc = "save"])
    /\ UNCHANGED <<up_files, simVars, solarVars, pipelineVars, retrieverVars, estimatorVars,
                   agentVars, serverVars>>

\* file.save(temp_path)
FileSave(r) ==
    /\ r \in 1..Len(up_req)
    /\ up_req[r].pc = "save"
    /\ up_files' = [up_files EXCEPT ![up_req[r].temp_path] = r]
    /\ up_req' = [up_req EXCEPT ![r].pc = "run_complete_pipeline", ![r].saved = TRUE]
    /\ UNCHANGED <<simVars, solarVars, pipelineVars, retrieverVars, estimatorVars,
                   agentVars, serverVars>>

\* The pipeline is constructed and its first stage looks at temp_path
PipelineReadsUpload(r) ==
    /\ r \in 1..Len(up_req)
    /\ up_req[r].pc = "run_complete_pipeline"
    /\ up_req' = [up_req EXCEPT ![r].pc = "pipeline_running",
                                ![r].seen = IF up_files[up_req[r].temp_path] # 0
                                            THEN up_files[up_req[r].temp_path]
                                            ELSE 0]
    /\ UNCHANGED <<up_files, simVars, solarVars, pipelineVars, retrieverVars, estimatorVars,
                   agentVars, serverVars>>

\* run_complete_pipeline returns results, returns an error result, or the
\* construction of the pipeline raises
PipelineFinishes(r, outcome) ==
    /\ r \in 1..Len(up_req)
    /\ up_req[r].pc \in {"run_complete_pipeline", "pipeline_running"}
    /\ up_req[r].pc = "run_complete_pipeline" => outcome = "raises"
    /\ up_req' = [up_req EXCEPT ![r].pc = "finally", ![r].outcome = outcome]
    /\ UNCHANGED <<up_files, simVars, solarVars, pipelineVars, retrieverVars, estimatorVars,
                   agentVars, serverVars>>

\* The finally clause removes temp_path, then the response is sent
FinallyRemove(r) ==
    /\ r \in 1..Len(up_req)
    /\ up_req[r].pc = "finally"
    /\ up_files' = os_remove(up_files, up_req[r].temp_path)
    /\ up_req' = [up_req EXCEPT ![r] =
          LET req == [up_req[r] EXCEPT !.removed = TRUE] IN
          CASE req.outcome = "success" -> UploadRespond(req, 200, {"metadata", "results"})
            [] req.outcome = "error_result" ->
                 UploadRespond(req, 500, {"error", "message", "stage"})
            [] OTHER -> UploadRespond(req, 500, {"error", "message", "details"})]
    /\ UNCHANGED <<simVars, solarVars, pipelineVars, retrieverVars, estimatorVars,
                   agentVars, serverVars>>

InitUpload ==
    /\ SolarIdle
    /\ SimIdle
    /\ PipelineIdle
    /\ RetrieverIdle
    /\ EstimatorIdle
    /\ AgentIdle
    /\ ServerIdle
    /\ UploadIdle

NextUpload ==
    \/ \E file \in Uploads : analyze_carbon_footprint(file)
    \/ \E r \in 1..MaxUploads : FileSave(r)
    \/ \E r \in 1..MaxUploads : PipelineReadsUpload(r)
    \/ \E r \in 1..MaxUploads, outcome \in PipelineOutcomes : PipelineFinishes(r, outcome)
    \/ \E r \in 1..MaxUploads : FinallyRemove(r)

SpecUpload == InitUpload /\ [][NextUpload]_vars

----------------------------------------------------------------------------
(* solar_api_server.py: the endpoints and the process-wide solar_agent,      *)
(* one thread per request                                                    *)

MaxRequests == 2

MaxPoints == 2

\* Python's None as a value of a request field or an argument
PyNone == [pytype |-> "none", items |-> <<>>]

\* data.get(key, default)
DataGet(data, key, default) == IF key \in DOMAIN data THEN data[key] ELSE default

\* A JSON number, which float() accepts
Number(value) == [numeric |-> TRUE, value |-> IntNum(value)]

CustomAppliances == PyDict([Fan |-> 75])

\* request.get_json() is None
NoJson == [present |-> FALSE, data |-> <<>>]

Json(data) == [present |-> TRUE, data |-> data]

AnalyzeBodies ==
    {NoJson,
     Json([solar_production |-> Number(500)]),
     Json([solar_production |-> Number(500), battery_percentage |-> Number(80)]),
     Json([solar_production |-> Number(3500), battery_percentage |-> Number(75),
           battery_capacity |-> 5000, appliances |-> CustomAppliances]),
     Json([solar_production |-> [numeric |-> FALSE, value |-> IntNum(0)],
           battery_percentage |-> Number(80)])}

SimulateBodies ==
    {Json(<<>>), Json([battery_capacity |-> 5000])}
    \cup {Json([simulation_data |-> n]) : n \in 1..MaxPoints}

ConfigBodies ==
    {NoJson, Json(<<>>), Json([battery_capacity |-> 5000, appliances |-> CustomAppliances])}

ServerRequest(kind, body) ==
    [kind |-> kind, body |-> body, pc |-> "received", agent |-> 0, used |-> {}, step |-> 0,
     prompt_from |-> {}, status |-> 0, keys |-> {}]

ServerRespond(req, status, keys) == [req EXCEPT !.pc = "done", !.status = status, !.keys = keys]

\* A request is being handled while another one is
Overlaps == sv_overlap \/ \E r \in 1..Len(sv_req) : sv_req[r].pc # "done"

\* initialize_agent without a new log: the log of the agent in place goes on
initialize_agentKeepsLog(creator, battery_capacity_wh, appliances) ==
    [SolarEnergyAgent(creator, battery_capacity_wh,
                      IF appliances.pytype = "none" THEN default_appliances
                      ELSE appliances.items)
       EXCEPT !.energy_log = sv_agents[sv_global].energy_log]

\* initialize_agent: the agent it constructs
initialize_agent(creator, battery_capacity_wh, appliances) ==
    SolarEnergyAgent(creator, battery_capacity_wh,
                     IF appliances.pytype = "none" THEN default_appliances
                     ELSE appliances.items)

\* The arguments a request passes to initialize_agent
InitializeArgs(req) ==
    LET data == req.body.data IN
    CASE req.kind = "analyze" ->
           LET custom_appliances == DataGet(data, "appliances", PyNone) IN
           [battery_capacity |-> DataGet(data, "battery_capacity", 10000),
            appliances |-> IF custom_appliances.pytype # "none"
                              /\ DOMAIN custom_appliances.items # {}
                           THEN custom_appliances ELSE PyNone]
      [] req.kind = "simulate" ->
           [battery_capacity |-> DataGet(data, "battery_capacity", 10000),
            appliances |-> DataGet(data, "appliances", PyNone)]
      [] OTHER ->
           [battery_capacity |-> DataGet(data, "battery_capacity", 10000),
            appliances |-> DataGet(data, "appliances", PyDict(<<>>))]

\* The agent run_simulation tracks on, with the module-level name in place of
\* the local one
SimulationAgentGlobal(req, global) == global

\* The agent run_simulation tracks on: its local name solar_agent
SimulationAgent(req, global) == req.agent

\* track_and_advise on an agent: the entry of request r at its step k is
\* appended to the log
TrackedLog(agent, r, k, solar, battery) ==
    Append(agent.energy_log, LogEntry(<<r, k>>, solar, battery))

\* What request r has done after its step k on the agent at index a, whose
\* log is now log: the prompt was built from the last three entries
Tracked(req, a, k, solar, battery, log) ==
    [req EXCEPT
       !.used = @ \cup {a},
       !.step = k,
       !.prompt_from =
           @ \cup {create_prompt(solar, battery, log).log_ctx[i].timestamp[1] :
                      i \in 1..Len(create_prompt(solar, battery, log).log_ctx)}]

\* POST /api/solar/analyze arrives and is validated
analyze_solar_energy(body) ==
    /\ Len(sv_req) < MaxRequests
    /\ sv_overlap' = Overlaps
    /\ sv_req' = Append(sv_req,
          LET req == ServerRequest("analyze", body) IN
          IF ~body.present \/ DOMAIN body.data = {}
          THEN ServerRespond(req, 400, {"success", "error"})
          ELSE IF \/ "solar_production" \notin DOMAIN body.data
                  \/ "battery_percentage" \notin DOMAIN body.data
          THEN ServerRespond(req, 400, {"success", "error"})
          ELSE [req EXCEPT !.pc = "initialize_agent"])
    /\ UNCHANGED <<sv_agents, sv_global, simVars, solarVars, pipelineVars, retrieverVars,
                   estimatorVars, agentVars, uploadVars>>

\* POST /api/solar/simulate arrives and is validated
run_simulation(body) ==
    /\ Len(sv_req) < MaxRequests
    /\ sv_overlap' = Overlaps
    /\ sv_req' = Append(sv_req,
          LET req == ServerRequest("simulate", body) IN
          IF ~body.present \/ DOMAIN body.data = {}
          THEN ServerRespond(req, 400, {"success", "error"})
          ELSE IF DataGet(body.data, "simulation_data", 0) = 0
          THEN ServerRespond(req, 400, {"success", "error"})
          ELSE [req EXCEPT !.pc = "initialize_agent"])
    /\ UNCHANGED <<sv_agents, sv_global, simVars, solarVars, pipelineVars, retrieverVars,
                   estimatorVars, agentVars, uploadVars>>

\* POST /api/solar/config arrives; data.get on None raises
handle_configuration_post(body) ==
    /\ Len(sv_req) < MaxRequests
    /\ sv_overlap' = Overlaps
    /\ sv_req' = Append(sv_req,
          LET req == ServerRequest("config", body) IN
          IF ~body.present
          THEN ServerRespond(req, 500, {"success", "error"})
          ELSE [req EXCEPT !.pc = "initialize_agent"])
    /\ UNCHANGED <<sv_agents, sv_global, simVars, solarVars, pipelineVars, retrieverVars,
                   estimatorVars, agentVars, uploadVars>>

\* GET /api/solar/config: the configuration of the agent in place
handle_configuration_get ==
    /\ Len(sv_req) < MaxRequests
    /\ sv_overlap' = Overlaps
    /\ sv_req' = Append(sv_req,
          [ServerRespond(ServerRequest("config_get", NoJson), 200,
                         {"success", "configuration"})
             EXCEPT !.step = Len(sv_agents[sv_global].energy_log)])
    /\ UNCHANGED <<sv_agents, sv_global, simVars, solarVars, pipelineVars, retrieverVars,
                   estimatorVars, agentVars, uploadVars>>

\* The body of initialize_agent, called by request r: the new agent becomes
\* the process-wide one and is returned
InitializeAgent(r) ==
    /\ r \in 1..Len(sv_req)
    /\ sv_req[r].pc = "initialize_agent"
    /\ LET args == InitializeArgs(sv_req[r]) IN
       sv_agents' = Append(sv_agents,
                           initialize_agent(r, args.battery_capacity, args.appliances))
    /\ sv_global' = Len(sv_agents')
    /\ sv_req' = [sv_req EXCEPT ![r].agent = Len(sv_agents'),
                                ![r].pc = IF sv_req[r].kind = "simulate"
                                          THEN "track_and_advise" ELSE "assign"]
    /\ UNCHANGED <<sv_overlap, simVars, solarVars, pipelineVars, retrieverVars,
                   estimatorVars, agentVars, uploadVars>>

\* solar_agent = initialize_agent(...) where solar_agent is the global name:
\* analyze goes on to track, the configuration update is answered
AssignGlobal(r) ==
    /\ r \in 1..Len(sv_req)
    /\ sv_req[r].pc = "assign"
    /\ sv_global' = sv_req[r].agent
    /\ sv_req' = [sv_req EXCEPT ![r] =
          IF @.kind = "analyze"
          THEN [@ EXCEPT !.pc = "track_and_advise"]
          ELSE ServerRespond(@, 200, {"success", "message", "configuration"})]
    /\ UNCHANGED <<sv_agents, sv_overlap, simVars, solarVars, pipelineVars, retrieverVars,
                   estimatorVars, agentVars, uploadVars>>

\* analyze: solar_agent.track_and_advise(float(...), float(...)) on the agent
\* the global name holds now, and the answer
AnalyzeTrack(r) ==
    /\ r \in 1..Len(sv_req)
    /\ sv_req[r].kind = "analyze"
    /\ sv_req[r].pc = "track_and_advise"
    /\ LET data == sv_req[r].body.data IN
       IF ~data.solar_production.numeric \/ ~data.battery_percentage.numeric
       THEN \* float() raises ValueError
            /\ sv_req' = [sv_req EXCEPT ![r] =
                             ServerRespond(@, 500, {"success", "error", "details"})]
            /\ UNCHANGED sv_agents
       ELSE LET solar == ToFloat(data.solar_production.value)
                battery == ToFloat(data.battery_percentage.value)
                log == TrackedLog(sv_agents[sv_global], r, 1, solar, battery)
            IN
            /\ sv_agents' = [sv_agents EXCEPT ![sv_global].energy_log = log]
            /\ sv_req' = [sv_req EXCEPT ![r] =
                  ServerRespond(Tracked(@, sv_global, 1, solar, battery, log), 200,
                                {"success", "timestamp", "input", "management_plan"})]
    /\ UNCHANGED <<sv_global, sv_overlap, simVars, solarVars, pipelineVars, retrieverVars,
                   estimatorVars, agentVars, uploadVars>>

\* simulate: one turn of the loop over simulation_data, and the answer after
\* the last one
SimulateTrack(r) ==
    /\ r \in 1..Len(sv_req)
    /\ sv_req[r].kind = "simulate"
    /\ sv_req[r].pc = "track_and_advise"
    /\ LET a == SimulationAgent(sv_req[r], sv_global)
           k == sv_req[r].step + 1
           log == TrackedLog(sv_agents[a], r, k, IntNum(0), IntNum(50))
       IN
       /\ sv_agents' = [sv_agents EXCEPT ![a].energy_log = log]
       /\ sv_req' = [sv_req EXCEPT ![r] =
             IF k = @.body.data.simulation_data
             THEN ServerRespond(Tracked(@, a, k, IntNum(0), IntNum(50), log), 200,
                                {"success", "timestamp", "configuration",
                                 "simulation_results"})
             ELSE Tracked(@, a, k, IntNum(0), IntNum(50), log)]
    /\ UNCHANGED <<sv_global, sv_overlap, simVars, solarVars, pipelineVars, retrieverVars,
                   estimatorVars, agentVars, uploadVars>>

InitServer ==
    /\ SolarIdle
    /\ SimIdle
    /\ PipelineIdle
    /\ RetrieverIdle
    /\ EstimatorIdle
    /\ AgentIdle
    /\ ServerIdle
    /\ UploadIdle

NextServer ==
    \/ \E body \in AnalyzeBodies : analyze_solar_energy(body)
    \/ \E body \in SimulateBodies : run_simulation(body)
    \/ \E body \in ConfigBodies : handle_configuration_post(body)
    \/ handle_configuration_get
    \/ \E r \in 1..MaxRequests : InitializeAgent(r)
    \/ \E r \in 1..MaxRequests : AssignGlobal(r)
    \/ \E r \in 1..MaxRequests : AnalyzeTrack(r)
    \/ \E r \in 1..MaxRequests : SimulateTrack(r)

SpecServer == InitServer /\ [][NextServer]_vars

----------------------------------------------------------------------------
(* Properties of GeminiClient.generate_content *)

IsFailure(outcome) ==
    \/ outcome.kind = "exception"
    \/ outcome.status \notin {200, 429}

CandidateOrder == <<"gemini-1.5-flash", "gemini-1.5-pro", "gemini-pro">>

\* C1: the candidates are tried in the order gemini-1.5-flash, gemini-1.5-pro,
\* gemini-pro; candidate k is called only if every earlier candidate ended in a
\* transport error or a status other than 200 and 429; each candidate is called
\* at most once; on the first 200 answer its body is returned and no later
\* candidate is called.
C1_CandidatesInOrder ==
    /\ Len(attempts) <= Len(CandidateOrder)
    /\ pc = "models" => idx = Len(attempts) + 1
    /\ \A i \in 1..Len(attempts) :
        /\ attempts[i].model = CandidateOrder[i]
        /\ \A j \in 1..(i - 1) : IsFailure(attempts[j].outcome)
        /\ attempts[i].outcome.status = 200 =>
            /\ i = Len(attempts)
            /\ pc = "returned"
            /\ response = attempts[i].outcome.body

C1_Witness ==
    /\ pc = "returned"
    /\ Len(attempts) = 3
    /\ attempts[1].outcome.kind = "exception"
    /\ attempts[2].outcome.status = 500
    /\ attempts[3].outcome.status = 200
    /\ response = attempts[3].outcome.body

\* C2: when a candidate answers 429 the candidate sequence is aborted at once:
\* no remaining candidate is called and a simulated response is returned.
C2_RateLimitAborts ==
    \A i \in 1..Len(attempts) :
        attempts[i].outcome.status = 429 =>
            /\ i = Len(attempts)
            /\ pc = "returned"
            /\ response.origin = "simulated"
            /\ Len(response.candidates) > 0

C2_Witness ==
    /\ pc = "returned"
    /\ Len(attempts) = 2
    /\ IsFailure(attempts[1].outcome)
    /\ attempts[2].outcome.status = 429
    /\ response.origin = "simulated"

\* C3 as claimed: for every combination of per-candidate outcomes the call ends
\* with a response that has a non-empty 'candidates' list.
C3_AlwaysCandidates ==
    pc = "returned" => Len(response.candidates) > 0

\* C3 as amended: the call always ends after at most three candidates, and for
\* every combination of per-candidate outcomes in which no candidate answers 200
\* (all three failed, or one answered 429) the response is a simulated one with
\* a non-empty 'candidates' list.
C3_NoSuccessGivesSimulated ==
    /\ pc = "models" => Len(attempts) < Len(CandidateOrder)
    /\ (pc = "returned" /\ \A i \in 1..Len(attempts) : attempts[i].outcome.status # 200) =>
        /\ response.origin = "simulated"
        /\ Len(response.candidates) > 0

C3_Witness ==
    /\ pc = "returned"
    /\ Len(attempts) = 3
    /\ \A i \in 1..3 : IsFailure(attempts[i].outcome)
    /\ response.origin = "simulated"
    /\ Len(response.candidates) > 0

\* The plan carried by a simulated response
PlanOf(resp) == resp.candidates[1].text.whole.items

\* C4: two generate_content calls with the same prompt that both end in a
\* simulated response return identical recommendation_summary and
\* battery_management strings, whichever failure path produced them.
C4_SimulatedDeterministic ==
    (/\ pc = "returned"
     /\ first_response.origin = "simulated"
     /\ response.origin = "simulated") =>
        /\ PlanOf(response).recommendation_summary
             = PlanOf(first_response).recommendation_summary
        /\ PlanOf(response).battery_management
             = PlanOf(first_response).battery_management

----------------------------------------------------------------------------
(* Properties of the rule-based plan *)

SimPlan == PlanOf(sim_out)

\* C6: the period is 'Peak Sun (High Production)' for s > 2000, 'Moderate Sun'
\* for 500 < s <= 2000, 'Low Sun' for 100 < s <= 500 and 'Night/No Sun'
\* otherwise; the heavy loads run on 'Direct Solar' exactly when s > 500 and on
\* 'Battery' otherwise; the battery advice is the 'well charged' text for
\* b > 80, the 'moderate' text for 50 < b <= 80 and the 'getting low' text
\* otherwise; (3500, 75) gives 'Peak Sun (High Production)' and 'Direct Solar'.
C6_BandsAsDocumented ==
    sim_out # NoResponse =>
        LET s == sim_args[1].tenths
            b == sim_args[2].tenths
            period == SimPlan.recommendation_summary[3]
            heater == SimPlan.energy_allocation_plan[3]
            washer == SimPlan.energy_allocation_plan[4]
            advice == SimPlan.battery_management[1]
        IN  /\ s > 20000 => period = "Peak Sun (High Production)"
            /\ (5000 < s /\ s <= 20000) => period = "Moderate Sun"
            /\ (1000 < s /\ s <= 5000) => period = "Low Sun"
            /\ s <= 1000 => period = "Night/No Sun"
            /\ heater.appliance = "Water Heater"
            /\ washer.appliance = "Washing Machine"
            /\ heater.power_source = (IF s > 5000 THEN "Direct Solar" ELSE "Battery")
            /\ washer.power_source = (IF s > 5000 THEN "Direct Solar" ELSE "Battery")
            /\ b > 800 =>
                advice = "Battery well charged. Can support high-power loads if needed."
            /\ (500 < b /\ b <= 800) =>
                advice = "Battery at moderate level. Monitor usage and prioritize essentials."
            /\ b <= 500 =>
                advice = "Battery getting low. Conserve power and avoid non-essential appliances."
            /\ (s = 35000 /\ b = 750) =>
                /\ period = "Peak Sun (High Production)"
                /\ heater.power_source = "Direct Solar"

C6_Witness ==
    /\ sim_args = <<IntNum(3500), IntNum(75)>>
    /\ sim_out # NoResponse
    /\ SimPlan.recommendation_summary[3] = "Peak Sun (High Production)"
    /\ SimPlan.energy_allocation_plan[3].power_source = "Direct Solar"

\* The band-dependent fields of a plan
BandFields(plan) ==
    <<plan.recommendation_summary[3],
      plan.energy_allocation_plan[3].power_source,
      plan.energy_allocation_plan[4].power_source,
      plan.energy_allocation_plan[2].power_source,
      plan.energy_allocation_plan[6].power_source,
      plan.battery_management[5]>>

\* C7: for solar watts exactly at a band edge (100, 500, 2000) every
\* band-dependent field of the plan (period, heavy-load power source, Lights
\* power source, Laptop Charger power source, charge/conservation mode) agrees
\* with the band the period names: it is the value the field has for every
\* other input of that band.
C7_EdgeFieldsAgreeWithBand ==
    (sim_out # NoResponse /\ sim_args[1].tenths \in {1000, 5000, 20000}) =>
        \A s2 \in SolarInputs :
            Period(s2) = SimPlan.recommendation_summary[3] =>
                BandFields(SimulatedPlan(s2, sim_args[2])) = BandFields(SimPlan)

----------------------------------------------------------------------------
(* Properties of SolarEnergyAgent.track_and_advise *)

PlanKeys ==
    {"recommendation_summary", "energy_allocation_plan", "battery_management", "alerts"}

NoCandidateSucceeded ==
    \A i \in 1..Len(attempts) : attempts[i].outcome.status # 200

\* C5: when no model candidate succeeds, the plan track_and_advise(s, b)
\* returns is the rule-based plan for exactly (s, b): period, heavy-load power
\* source and battery advice are those of the bands containing s and b, for int
\* and for float arguments.
C5_FallbackPlanIsForArguments ==
    (pc = "done" /\ NoCandidateSucceeded) =>
        /\ result.pytype = "dict"
        /\ PlanKeys \subseteq DOMAIN result.items
        /\ result.items.recommendation_summary[3] = Period(ta_args[1])
        /\ result.items.energy_allocation_plan[3].power_source = PowerSourceHeavy(ta_args[1])
        /\ result.items.battery_management[1] = BatteryAdvice(ta_args[2])

\* C8: every value track_and_advise returns, on every degradation path, is a
\* mapping with the keys recommendation_summary, energy_allocation_plan,
\* battery_management and alerts.
C8_AlwaysEnergyPlan ==
    pc = "done" =>
        /\ result.pytype = "dict"
        /\ PlanKeys \subseteq DOMAIN result.items

Min(a, b) == IF a < b THEN a ELSE b

\* C9: the energy log is append-only: each track_and_advise call appends
\* exactly one entry (the call's readings) before the prompt is built, whatever
\* the model call does afterwards; no step removes or changes an entry; and the
\* prompt embeds at most the last 3 entries, the one just appended included.
C9_LogAppendOnly ==
    [][ /\ Len(energy_log') = calls'
        /\ IF calls' # calls
           THEN /\ Len(energy_log') = Len(energy_log) + 1
                /\ SubSeq(energy_log', 1, Len(energy_log)) = energy_log
                /\ energy_log'[Len(energy_log')].solar_production_watts = ta_args'[1]
                /\ energy_log'[Len(energy_log')].battery_percentage = ta_args'[2]
                /\ Len(prompt'.log_ctx) = Min(3, Len(energy_log'))
                /\ \A k \in 1..Len(prompt'.log_ctx) :
                     prompt'.log_ctx[k]
                       = energy_log'[Len(energy_log') - Len(prompt'.log_ctx) + k]
           ELSE /\ energy_log' = energy_log
                /\ prompt' = prompt
      ]_vars

C9_Witness ==
    /\ pc = "done"
    /\ Len(energy_log) = 4
    /\ Len(prompt.log_ctx) = 3
    /\ prompt.log_ctx[3] = energy_log[4]
    /\ prompt.log_ctx[1] = energy_log[2]

----------------------------------------------------------------------------
(* Properties of CarbonFootprintPipeline.run_complete_pipeline *)

StageKeys ==
    {"layer1_input_processing", "layer2_standardization", "layer3_knowledge_retrieval",
     "layer4_footprint_estimation", "layer5_final_summary"}

ErrorOfLayer ==
    <<"Layer 1 (Input Processing) failed", "Layer 2 (Entity Standardization) failed",
      "Layer 3 (Knowledge Retrieval) failed", "Layer 4 (Footprint Estimation) failed",
      "Layer 5 (Final Summary) failed">>

\* C10: if a stage raises, the chain halts: the returned mapping carries an
\* 'error' naming the failing layer and 'details' with the error text, no later
\* stage is executed, and the returned mapping holds none of the stage keys.
C10_RaisingStageHalts ==
    \A i \in 1..Len(pl_ran) :
        /\ pl_ran[i].layer = i
        /\ pl_ran[i].raised =>
            /\ i = Len(pl_ran)
            /\ pl_pc = "done"
            /\ DOMAIN pl_return = {"error", "details"}
            /\ pl_return.error = ErrorOfLayer[i]
            /\ pl_return.details # ""
            /\ DOMAIN pl_return \cap StageKeys = {}

C10_Witness ==
    /\ pl_pc = "done"
    /\ Len(pl_ran) = 4
    /\ pl_ran[4].raised
    /\ pl_return.error = "Layer 4 (Footprint Estimation) failed"
    /\ DOMAIN pipeline_results
         = {"layer1_input_processing", "layer2_standardization", "layer3_knowledge_retrieval"}

StageKey ==
    <<"layer1_input_processing", "layer2_standardization", "layer3_knowledge_retrieval",
      "layer4_footprint_estimation", "layer5_final_summary">>

\* C11: a run of run_complete_pipeline that returns without an error has
\* executed the five stages exactly once each in the order 1 to 5, stage 1 on
\* the given path and stage n+1 on the output of stage n, and returns a mapping
\* with exactly the five stage keys; no stage is ever run twice.
C11_FiveStagesOnceInOrder ==
    /\ \A i, j \in 1..Len(pl_ran) : pl_ran[i].layer = pl_ran[j].layer => i = j
    /\ (pl_pc = "done" /\ "error" \notin DOMAIN pl_return) =>
        /\ Len(pl_ran) = 5
        /\ \A n \in 1..5 : pl_ran[n].layer = n /\ ~pl_ran[n].raised
        /\ pl_ran[1].input = pl_input
        /\ \A n \in 1..4 : pl_ran[n + 1].input = pipeline_results[StageKey[n]]
        /\ DOMAIN pl_return = StageKeys
        /\ \A n \in 1..5 : pl_return[StageKey[n]] = pipeline_results[StageKey[n]]

C11_Witness ==
    /\ pl_pc = "done"
    /\ Len(pl_ran) = 5
    /\ DOMAIN pl_return = StageKeys
    /\ pl_ran[5].input = pl_return["layer4_footprint_estimation"]
    /\ pl_ran[3].input.items.canonical_name = "Quantum Widget"

\* C12: when run_complete_pipeline is given a path to a file that does not
\* exist, only the input-processing stage runs and the result returned is the
\* failure of that stage.
C12_MissingFileHalts ==
    (pl_pc # "idle" /\ ~PathExists(pl_input)) =>
        /\ \A i \in 1..Len(pl_ran) : pl_ran[i].layer = 1
        /\ Len(pl_ran) >= 1 =>
            /\ pl_pc = "done"
            /\ "error" \in DOMAIN pl_return
            /\ pl_return.error = ErrorOfLayer[1]

\* C13: on an existing file process_input runs the vision extraction first,
\* the OCR pass if and only if the vision extraction gave nothing, and returns
\* the error record if and only if both gave nothing; on an input that is not
\* an existing file it runs neither and returns {type: manual_text, content:
\* input}.  It returns a value in every case.
C13_VisionThenOcr ==
    Len(pl_ran) >= 1 =>
        LET layer1_result == pipeline_results["layer1_input_processing"] IN
        IF PathExists(pl_input)
        THEN /\ Len(pl_tools) \in {1, 2}
             /\ pl_tools[1].tool = "_process_with_gemini"
             /\ (Len(pl_tools) = 2) <=> ~pl_tools[1].ok
             /\ Len(pl_tools) = 2 => pl_tools[2].tool = "_process_with_tesseract"
             /\ (/\ layer1_result.pytype = "dict"
                 /\ DOMAIN layer1_result.items = {"error"})
                  <=> (\A k \in 1..Len(pl_tools) : ~pl_tools[k].ok)
        ELSE /\ pl_tools = <<>>
             /\ layer1_result.pytype = "dict"
             /\ DOMAIN layer1_result.items = {"type", "content"}
             /\ layer1_result.items.type = "manual_text"
             /\ layer1_result.items.content = pl_input

C13_Witness ==
    /\ PathExists(pl_input)
    /\ Len(pl_tools) = 2
    /\ pl_tools[2].ok
    /\ pipeline_results["layer1_input_processing"].items.type = "ocr_fallback"

\* C14: every record that run_complete_pipeline hands to the standardization
\* stage contains a 'type' field.
C14_StandardizerGivenTypedRecord ==
    \A i \in 1..Len(pl_ran) :
        pl_ran[i].layer = 2 => "type" \in DOMAIN pl_ran[i].input.items

IsMapping(value) == value.pytype = "dict"

HasKey(value, key) == IsMapping(value) /\ key \in DOMAIN value.items

\* C15: standardize_json returns the sentinel {canonical_name: 'Error
\* processing JSON', category: 'Error'} when the model output does not parse or
\* is without 'canonical_name' or 'category', a record with category 'Error'
\* on every other failure, and otherwise the parsed record with both keys.
C15_StandardizerNeverRaises ==
    \A i \in 1..Len(pl_ran) :
        pl_ran[i].layer = 2 =>
            LET answer == pl_ran[i].answer
                returned == pipeline_results["layer2_standardization"]
            IN  IF answer.kind = "api_error"
                THEN HasKey(returned, "category") /\ returned.items.category = "Error"
                ELSE IF \/ answer.value.pytype = "invalid"
                        \/ ~HasKey(answer.value, "canonical_name")
                        \/ ~HasKey(answer.value, "category")
                THEN /\ IsMapping(returned)
                     /\ DOMAIN returned.items = {"canonical_name", "category"}
                     /\ returned.items.canonical_name = "Error processing JSON"
                     /\ returned.items.category = "Error"
                ELSE /\ HasKey(returned, "canonical_name")
                     /\ HasKey(returned, "category")
                     /\ returned = answer.value

\* C16: the category carried by the result of the knowledge-retrieval stage is
\* one of Food, Beverage, Clothing, Electronics, Flights, Other.
C16_CategoryInEnum ==
    "layer3_knowledge_retrieval" \in DOMAIN pipeline_results =>
        pipeline_results["layer3_knowledge_retrieval"].items.category \in categories

\* C17: for a canonical name present in the internal table (case-insensitive
\* exact match) the record knowledge retrieval returns is the table's record.
C17_TableRecordWins ==
    "layer3_knowledge_retrieval" \in DOMAIN pipeline_results =>
        LET layer3_result == pipeline_results["layer3_knowledge_retrieval"].items
            name == Lower(layer3_result.canonical_name)
        IN  name \in DOMAIN MOCK_INTERNAL_DATABASE =>
                /\ layer3_result.co2e_kg = MOCK_INTERNAL_DATABASE[name].co2e_kg
                /\ layer3_result.source = MOCK_INTERNAL_DATABASE[name].source
                /\ layer3_result.confidence = MOCK_INTERNAL_DATABASE[name].confidence

----------------------------------------------------------------------------
(* Properties of KnowledgeRetriever *)

\* C18: for a canonical name found neither in the internal table nor by the
\* web lookup and a category outside the fixed list, the category fallback
\* gives a record with the generic average (5.0 kg, confidence Low) and no
\* error, and the retrieval does not raise.
C18_UnknownCategoryGetsGenericAverage ==
    \A i \in 1..Len(kr_calls) :
        (/\ kr_calls[i].tool = "_use_category_fallback_heuristic"
         /\ IsString(kr_args.items.canonical_name)
         /\ "error" \in DOMAIN lookup_internal_database(kr_args.items.canonical_name).items
         /\ "error" \in
              DOMAIN search_web_for_footprint_data(kr_args.items.canonical_name).items
         /\ kr_args.items.category \notin categories)
        => /\ kr_pc # "raised"
           /\ DOMAIN kr_calls[i].output.items = {"co2e_kg", "source", "confidence"}
           /\ kr_calls[i].output.items.co2e_kg = 5000000
           /\ kr_calls[i].output.items.confidence = "Low"

----------------------------------------------------------------------------
(* Properties of the footprint estimation *)

HasAllComponents(data) ==
    /\ "components" \in DOMAIN data.items
    /\ DOMAIN data.items.components
         = {"production_impact", "packaging_impact", "transport_impact"}

\* C19: estimate on a record that has 'components' makes no model call and
\* returns the total equal to the sum of the three given components and the
\* breakdown equal to the components, rounded to 4 decimals; the components
\* 5.5, 0.3 and 1.0 give the total 6.8 and the breakdown 5.5, 0.3, 1.0.  On a
\* record with neither 'components' nor 'co2e_kg' it returns an error record,
\* also without a model call.
C19_ComponentsSummedWithoutModel ==
    (est_fn = "estimate") =>
        /\ "components" \in DOMAIN est_data.items =>
            /\ est_pc = "done"
            /\ est_model_calls = 0
            /\ "error" \notin DOMAIN est_return.items
        /\ HasAllComponents(est_data) =>
            LET components == est_data.items.components
                estimate_ == est_return.items
            IN  /\ estimate_.total_co2e_kg
                     = Round4(components.production_impact + components.packaging_impact
                                + components.transport_impact)
                /\ estimate_.breakdown.production = Round4(components.production_impact)
                /\ estimate_.breakdown.packaging = Round4(components.packaging_impact)
                /\ estimate_.breakdown.transport = Round4(components.transport_impact)
                /\ (/\ components.production_impact = 5500000
                    /\ components.packaging_impact = 300000
                    /\ components.transport_impact = 1000000)
                   => /\ estimate_.total_co2e_kg = 6800000
                      /\ estimate_.breakdown
                           = [production |-> 5500000, packaging |-> 300000,
                              transport |-> 1000000]
        /\ ("components" \notin DOMAIN est_data.items
              /\ "co2e_kg" \notin DOMAIN est_data.items) =>
            /\ est_pc = "done"
            /\ est_model_calls = 0
            /\ DOMAIN est_return.items = {"error"}

C19_Witness ==
    /\ est_fn = "estimate"
    /\ est_pc = "done"
    /\ HasAllComponents(est_data)
    /\ est_data.items.components.production_impact = 5500000
    /\ est_data.items.components.packaging_impact = 300000
    /\ est_data.items.components.transport_impact = 1000000
    /\ est_return.items.total_co2e_kg = 6800000
    /\ est_model_calls = 0

Abs(x) == IF x < 0 THEN -x ELSE x

\* C20: in every estimate produced, by estimate or by
\* _estimate_footprint_breakdown, with the model's breakdown or the fallback
\* split, the production, packaging and transport parts rounded to 4 decimals
\* add up to the rounded total_co2e_kg within 1e-3 (1000 in units of 1e-6 kg).
C20_PartsAddUpToTotal ==
    (est_pc = "done" /\ "total_co2e_kg" \in DOMAIN est_return.items) =>
        LET estimate_ == est_return.items IN
        IF est_fn = "estimate"
        THEN Abs(Round4(estimate_.breakdown.production)
                   + Round4(estimate_.breakdown.packaging)
                   + Round4(estimate_.breakdown.transport)
                   - Round4(estimate_.total_co2e_kg)) <= 1000
        ELSE /\ HasKey(estimate_.breakdown, "production_impact")
             /\ HasKey(estimate_.breakdown, "packaging_impact")
             /\ HasKey(estimate_.breakdown, "transport_impact")
             /\ Abs(Round4(estimate_.breakdown.items.production_impact)
                      + Round4(estimate_.breakdown.items.packaging_impact)
                      + Round4(estimate_.breakdown.items.transport_impact)
                      - Round4(estimate_.total_co2e_kg)) <= 1000

\* C21: for a record that has only co2e_kg, the total of the estimate that
\* estimate returns equals the record's co2e_kg to 4 decimals whatever the
\* model answered, and the parts of the returned breakdown add up to that
\* total (within 1000 units of 1e-6 kg).
C21_BreakdownValidatedAgainstTotal ==
    (/\ est_fn = "estimate"
     /\ est_pc = "done"
     /\ "components" \notin DOMAIN est_data.items
     /\ "co2e_kg" \in DOMAIN est_data.items)
    => /\ est_return.items.total_co2e_kg = Round4(est_data.items.co2e_kg)
       /\ Abs(est_return.items.breakdown.production
                + est_return.items.breakdown.packaging
                + est_return.items.breakdown.transport
                - Round4(est_data.items.co2e_kg)) <= 1000

\* C22: when the model call raises during the breakdown of a record that has
\* only co2e_kg, estimate does not raise: it returns an estimate built from the
\* default split.
C22_UnreachableModelGivesDefaultSplit ==
    (est_fn = "estimate" /\ est_model_calls > 0) =>
        /\ est_pc = "done"
        /\ "total_co2e_kg" \in DOMAIN est_return.items

----------------------------------------------------------------------------
(* Further properties of SolarEnergyAgent.track_and_advise *)

\* C25: track_and_advise returns the parse of the brace-delimited span when
\* that parses, else the parse of the entire text when that parses, and the
\* simulated plan only when both fail.
C25_WholeTextTriedAfterSpan ==
    (/\ pc = "done"
     /\ Len(response.candidates) > 0
     /\ response.candidates[1].has_content)
    => LET text == response.candidates[1].text IN
       IF text.braces /\ text.span.pytype # "invalid"
       THEN result.pytype = text.span.pytype
       ELSE IF text.whole.pytype # "invalid"
       THEN result.pytype = text.whole.pytype
       ELSE result.pytype = "dict" /\ DOMAIN result.items = PlanKeys

----------------------------------------------------------------------------
(* Further properties of run_complete_pipeline *)

\* C26: when the standardization stage returns the category 'Error', the
\* pipeline runs no later stage and returns no footprint estimate.
C26_SentinelStopsPipeline ==
    (/\ "layer2_standardization" \in DOMAIN pipeline_results
     /\ HasKey(pipeline_results["layer2_standardization"], "category")
     /\ pipeline_results["layer2_standardization"].items.category = "Error")
    => /\ \A i \in 1..Len(pl_ran) : pl_ran[i].layer <= 2
       /\ "layer4_footprint_estimation" \notin DOMAIN pipeline_results
       /\ "layer4_footprint_estimation" \notin DOMAIN pl_return

----------------------------------------------------------------------------
(* Properties of CarbonFootprintAgent.run *)

\* C27: when the standardization output does not parse, run goes on with
\* {canonical_name: the user query, category: 'Food'}, does not raise unless a
\* model call does, and returns its result mapping.
C27_ParseFailureRecovered ==
    (/\ ag_pc \in {"done", "raised"}
     /\ ag_data.pytype = "dict"
     /\ ag_standardized.pytype = "invalid"
     /\ est_pc = "done")
    => /\ ag_pc = "done"
       /\ ag_data = RunFallbackStandardization(ag_query)
       /\ DOMAIN ag_return
            = {"standardized_data", "knowledge_data", "estimation_data", "final_summary"}

----------------------------------------------------------------------------
(* Properties of POST /api/analyze *)

\* C23: once a request has saved its temporary file, the file is removed by
\* the time the request is answered, whether the pipeline succeeded, returned
\* an error result or raised.
C23_TempFileRemovedOnEveryPath ==
    \A r \in 1..Len(up_req) :
        (up_req[r].pc = "done" /\ up_req[r].saved)
        => /\ up_req[r].removed
           /\ up_req[r].outcome \in PipelineOutcomes
           /\ up_files[up_req[r].temp_path] # r

C23_Witness ==
    /\ \E r \in 1..Len(up_req) :
          up_req[r].pc = "done" /\ up_req[r].outcome = "raises" /\ up_req[r].removed
    /\ \E r \in 1..Len(up_req) :
          up_req[r].pc = "done" /\ up_req[r].outcome = "error_result" /\ up_req[r].removed
    /\ \A p \in UploadPaths : up_files[p] = 0

\* C29: the temporary file of a request whose pipeline has not finished holds
\* that request's own upload, and the pipeline found its own upload there.
C29_UploadNotTouchedByOtherRequest ==
    \A r \in 1..Len(up_req) :
        /\ up_req[r].pc \in {"run_complete_pipeline", "pipeline_running"}
              => up_files[up_req[r].temp_path] = r
        /\ up_req[r].pc = "pipeline_running" => up_req[r].seen = r

----------------------------------------------------------------------------
(* Properties of the solar API server *)

\* C24: every error response (status 400 and above) carries 'success' or
\* 'error' and also a 'message' field.
C24_ErrorResponsesCarryMessage ==
    \A r \in 1..Len(sv_req) :
        (sv_req[r].pc = "done" /\ sv_req[r].status >= 400)
        => /\ {"success", "error"} \cap sv_req[r].keys # {}
           /\ "message" \in sv_req[r].keys

Succeeded(r) == sv_req[r].pc = "done" /\ sv_req[r].status = 200

Quiescent == \A r \in 1..Len(sv_req) : sv_req[r].pc = "done"

OwnReadingsOnly(r) ==
    LET log == sv_agents[sv_global].energy_log IN
    /\ sv_agents[sv_global].creator = r
    /\ \A i \in 1..Len(log) : log[i].timestamp[1] = r
    /\ Len(log) = IF sv_req[r].kind = "analyze" THEN 1 ELSE sv_req[r].body.data.simulation_data

OmitsConfiguration(r) ==
    /\ sv_req[r].kind = "analyze"
    /\ "battery_capacity" \notin DOMAIN sv_req[r].body.data
    /\ "appliances" \notin DOMAIN sv_req[r].body.data

\* The log of the process-wide agent holds only the readings of the latest
\* analyze or simulate request, the prompt of an analyze holds its own reading
\* only, and a configuration update is gone after a later analyze that omits
\* battery_capacity and appliances; all of it once every request is answered,
\* for requests answered with success.
LatestRequestOnly ==
    /\ \A r \in 1..Len(sv_req) :
          (sv_req[r].kind = "analyze" /\ Succeeded(r)) => sv_req[r].prompt_from = {r}
    /\ (Quiescent /\ sv_req # <<>> /\ sv_req[Len(sv_req)].kind \in {"analyze", "simulate"}
        /\ Succeeded(Len(sv_req)))
          => OwnReadingsOnly(Len(sv_req))
    /\ \A c, r \in 1..Len(sv_req) :
          (Quiescent /\ c < r /\ sv_req[c].kind = "config" /\ OmitsConfiguration(r)
           /\ Succeeded(r))
          => /\ sv_agents[sv_global].creator # c
             /\ r = Len(sv_req) =>
                   /\ sv_agents[sv_global].battery_capacity_wh = 10000
                   /\ sv_agents[sv_global].appliances = default_appliances

\* C30 as stated: after any sequence of requests the log of the process-wide
\* agent holds only the readings of the most recent analyze or simulate
\* request (exactly one entry after an analyze), the prompt of an analyze
\* request holds no readings of other requests, and a configuration update
\* does not survive a later analyze that omits battery_capacity and appliances.
C30_LogHoldsLatestRequestOnly == LatestRequestOnly

\* C30 for requests that do not overlap: while no request was handled during
\* another one, the log of the process-wide agent holds only the readings of
\* the latest analyze or simulate request, the prompt of an analyze holds its
\* own reading only, and a configuration update is gone after a later analyze
\* that omits battery_capacity and appliances.
C30_SequentialLogHoldsLatestRequestOnly == ~sv_overlap => LatestRequestOnly

C30_Witness ==
    /\ ~sv_overlap
    /\ Len(sv_req) = 2
    /\ sv_req[1].kind = "config" /\ Succeeded(1)
    /\ sv_agents[sv_req[1].agent].battery_capacity_wh = 5000
    /\ OmitsConfiguration(2) /\ Succeeded(2)
    /\ Len(sv_agents[sv_global].energy_log) = 1

====
